---------------------------- MODULE Spec2Model ----------------------------
(***************************************************************************)
(* Seamless: the ingestion-to-structure pipeline of the light-novel        *)
(* reader.  RawBlocks (page text, images) are assembled into chapters by   *)
(* convertBlocksToNovel, which consults NovelPatternMatcher for headings   *)
(* and TextProcessor for narration / dialogue segmentation.                *)
(*                                                                         *)
(* Text is modelled as a sequence of characters; a character is a string.  *)
(* ASCII characters are one-character strings, the other glyphs the code   *)
(* names are strings holding the glyph's name.                             *)
(***************************************************************************)
EXTENDS Integers, Sequences, FiniteSets, TLC

\* ------------------------------------------------------------------------
\* The variables: the locals of a call of convertBlocksToNovel, of a call of
\* TextProcessor.processContent, of a call of isDialogueStart, of a call of
\* encodeRGBAtoPNG, of a call of parsePdfToBlocks, of a call of
\* detectChapter and of a call of detectSection
\* ------------------------------------------------------------------------

VARIABLES
  \* convertBlocksToNovel
  variant,        \* the copy of convertBlocksToNovel that runs
  options,        \* the ConvertOptions of the call
  rawBlocks,      \* the RawBlock[] of the call
  pc,             \* "block": between raw blocks; "lines": inside a text block;
                  \* "done": returned; "idle": not called
  blockIndex,     \* position of the raw block being processed (from 1)
  lines,          \* the trimmed lines of the current text block
  i,              \* position in lines (from 1)
  pendingText, currentBlocks, currentTitle, currentNumber, chapterCount,
  chapters,
  result,         \* the Novel returned
  seed,           \* what nanoid() draws from in this call
  firstResult,    \* the Novel an earlier call returned on the same arguments
  \* TextProcessor
  tpLanguage,     \* the language the TextProcessor was constructed with
  text,           \* the argument of processContent
  tpc,            \* "content": called; "paragraphs": between paragraphs;
                  \* "lines": inside processParagraphSequential; "done":
                  \* returned; "idle": not called
  paragraphs,     \* the paragraphs of processContent
  paragraphIndex, \* position in paragraphs (from 1)
  rawLines,       \* the valid lines of the current paragraph
  cleanLines,     \* rawLines.map(cleanNonDialogueQuoteLine): `lines`
  lineIndex,      \* position in cleanLines (from 1)
  current, inDialogue,
  blocks,         \* the fragments emitted so far
  \* a call of isDialogueStart
  probeLine,      \* its argument
  probed,         \* whether it has returned
  dialogueStart,  \* its result
  \* encodeRGBAtoPNG
  img,            \* its argument: width, height, data
  encPc,          \* "alloc": called; "row": at the test of the loop over y;
                  \* "pixel": at the test of the loop over x; "returned";
                  \* "threw"; "idle": not called
  rawBuffer,      \* `raw`: the scanlines
  y, x,
  pngBase64,      \* the string returned
  \* parsePdfToBlocks
  pdf,            \* what unpdf reads from the file: the pages, each with its
                  \* text and its images
  pdfPc,          \* "page": at the test of the loop over the pages; "images":
                  \* at the test of the loop over the images; "returned";
                  \* "idle": not called
  pageIndex,      \* 0-based, as in the code
  imageIndex,     \* position in the images of the page (from 1)
  imagesOnPage, totalImages,
  pdfBlocks,      \* `blocks`: the RawBlock[] built and returned
  \* a call of detectChapter
  matcherLanguage, \* the language the NovelPatternMatcher was constructed with
  chapterLine,    \* its argument
  matched,        \* whether it has returned
  chapter,        \* its result
  \* a call of detectSection (on the same NovelPatternMatcher)
  sectionLine,    \* its argument
  sectionPc,      \* "called"; "returned"; "idle": not called
  section,        \* its result
  \* useReaderStore, persisted
  currentNovel, currentNovelId, bookmarksByNovelId, recents,
  storeCall,      \* the last call on the store, with its arguments
  \* useReaderStore of src/store/useReaderStore.ts
  novel, novelId, bookmark,
  localStorage,   \* the items of window.localStorage
  \* HomePage
  loading, progress, error, logs,
  progressTimerRef, \* the interval of the estimated progress, or null
  ticks,          \* how often the interval has fired
  requests,       \* the calls of convertFile and handleSelectExisting, in
                  \* the order they started
  novelDb         \* what saveNovelToDb stored, by novel id


\* ------------------------------------------------------------------------
\* Characters
\* ------------------------------------------------------------------------

\* the literal s as a sequence of one-character strings
RECURSIVE StrFrom(_, _)
StrFrom(s, k) == IF k > Len(s) THEN <<>> ELSE <<SubSeq(s, k, k)>> \o StrFrom(s, k + 1)
Str(s) == StrFrom(s, 1)

NL == "\n"
CR == "\r"
TAB == "\t"
SP == " "
DQ == "\""
APOS == "'"
LDQUO == "ldquo"        \* U+201C left double quotation mark
RDQUO == "rdquo"        \* U+201D right double quotation mark
LSQUO == "lsquo"        \* U+2018 left single quotation mark
RSQUO == "rsquo"        \* U+2019 right single quotation mark
LAQUO == "laquo"        \* U+00AB left guillemet
RAQUO == "raquo"        \* U+00BB right guillemet
LCORNER == "lcorner"    \* U+300C left corner bracket
RCORNER == "rcorner"    \* U+300D right corner bracket
LWCORNER == "lwcorner"  \* U+300E left white corner bracket
RWCORNER == "rwcorner"  \* U+300F right white corner bracket
EMDASH == "mdash"       \* U+2014
ENDASH == "ndash"       \* U+2013
LOZENGE == "loz"        \* U+25CA
WDIAMOND == "wdiamond"  \* U+25C7
BDIAMOND == "bdiamond"  \* U+25C6
STAR4 == "star4"        \* U+2726
EACUTE == "eacute"      \* U+00E9
CAPEACUTE == "Eacute"   \* U+00C9
KANJIDAI == "dai"       \* U+7B2C
KANJISHO == "sho"       \* U+7AE0
CJKSTOP == "cjkstop"    \* U+3002
FWEXCL == "fwexcl"      \* U+FF01
FWQUEST == "fwquest"    \* U+FF1F

UpperSeq ==
  <<"A", "B", "C", "D", "E", "F", "G", "H", "I", "J", "K", "L", "M">>
    \o <<"N", "O", "P", "Q", "R", "S", "T", "U", "V", "W", "X", "Y", "Z">>
LowerSeq ==
  <<"a", "b", "c", "d", "e", "f", "g", "h", "i", "j", "k", "l", "m">>
    \o <<"n", "o", "p", "q", "r", "s", "t", "u", "v", "w", "x", "y", "z">>
DigitSeq == <<"0", "1", "2", "3", "4", "5", "6", "7", "8", "9">>

AsciiUpper ==
  {"A", "B", "C", "D", "E", "F", "G", "H", "I", "J", "K", "L", "M"}
    \cup {"N", "O", "P", "Q", "R", "S", "T", "U", "V", "W", "X", "Y", "Z"}
AsciiLower ==
  {"a", "b", "c", "d", "e", "f", "g", "h", "i", "j", "k", "l", "m"}
    \cup {"n", "o", "p", "q", "r", "s", "t", "u", "v", "w", "x", "y", "z"}
Digits == {"0", "1", "2", "3", "4", "5", "6", "7", "8", "9"}

\* \s of a JavaScript regular expression, and what trim() removes
WhiteSpace == {SP, TAB, NL, CR}
\* what "." of a regular expression does not match
LineTerminators == {NL, CR}
\* \w of a JavaScript regular expression
WordChars == AsciiUpper \cup AsciiLower \cup Digits \cup {"_"}
\* [A-Za-zÀ-ÖØ-öø-ÿ] and [A-ZÀ-Ö], restricted to the modelled glyphs
LatinLetters == AsciiUpper \cup AsciiLower \cup {EACUTE, CAPEACUTE}
LatinUpper == AsciiUpper \cup {CAPEACUTE}

DigitVal(c) == (CHOOSE k \in 1..10 : DigitSeq[k] = c) - 1

\* the lower-case form of a character (the "i" flag of a regular expression)
ToLowerChar(c) ==
  IF c \in AsciiUpper THEN LowerSeq[CHOOSE k \in 1..26 : UpperSeq[k] = c]
  ELSE IF c = CAPEACUTE THEN EACUTE
  ELSE c

ToLower(s) == [k \in 1..Len(s) |-> ToLowerChar(s[k])]

\* ------------------------------------------------------------------------
\* Strings
\* ------------------------------------------------------------------------

StartsWith(s, p) == Len(p) <= Len(s) /\ SubSeq(s, 1, Len(p)) = p
EndsWith(s, p) == Len(p) <= Len(s) /\ SubSeq(s, Len(s) - Len(p) + 1, Len(s)) = p

\* String.prototype.trimStart / trim
TrimStart(s) ==
  LET keep == {k \in 1..Len(s) : s[k] \notin WhiteSpace}
  IN IF keep = {} THEN <<>>
     ELSE SubSeq(s, CHOOSE k \in keep : \A m \in keep : k <= m, Len(s))

Trim(s) ==
  LET keep == {k \in 1..Len(s) : s[k] \notin WhiteSpace}
  IN IF keep = {} THEN <<>>
     ELSE SubSeq(s, CHOOSE k \in keep : \A m \in keep : k <= m,
                    CHOOSE k \in keep : \A m \in keep : k >= m)

\* number of characters of s in the set cs: (s.match(/[cs]/g) ?? []).length
CountIn(s, cs) == Cardinality({k \in 1..Len(s) : s[k] \in cs})

\* s.replace(/[^cs]/g, ""): the characters of s in cs, in order
RECURSIVE KeepOnly(_, _)
KeepOnly(s, cs) ==
  IF s = <<>> THEN <<>>
  ELSE IF Head(s) \in cs THEN <<Head(s)>> \o KeepOnly(Tail(s), cs)
  ELSE KeepOnly(Tail(s), cs)

\* s.split(sep) for a one-character separator
RECURSIVE SplitOn(_, _)
SplitOn(s, sep) ==
  LET hits == {k \in 1..Len(s) : s[k] = sep}
  IN IF hits = {} THEN <<s>>
     ELSE LET k == CHOOSE h \in hits : \A m \in hits : h <= m
          IN <<SubSeq(s, 1, k - 1)>> \o SplitOn(SubSeq(s, k + 1, Len(s)), sep)

\* parts.join(sep)
RECURSIVE JoinWith(_, _)
JoinWith(parts, sep) ==
  IF parts = <<>> THEN <<>>
  ELSE IF Len(parts) = 1 THEN parts[1]
  ELSE parts[1] \o sep \o JoinWith(Tail(parts), sep)

\* Number(digits) for a string of decimal digits
RECURSIVE DigitsToNumber(_)
DigitsToNumber(ds) ==
  IF ds = <<>> THEN 0
  ELSE 10 * DigitsToNumber(SubSeq(ds, 1, Len(ds) - 1)) + DigitVal(ds[Len(ds)])

\* String(n) of a natural number: the template literals `chapter-${n}`
RECURSIVE NumberToDigits(_)
NumberToDigits(n) ==
  IF n < 10 THEN <<DigitSeq[n + 1]>>
  ELSE NumberToDigits(n \div 10) \o <<DigitSeq[(n % 10) + 1]>>


\* ------------------------------------------------------------------------
\* Regular expressions.  A pattern is a sequence of items, matched from the
\* start of the subject (every pattern modelled this way begins with ^) by
\* greedy backtracking, as the JavaScript engine does.
\* ------------------------------------------------------------------------

Lit(c) == [t |-> "set", cs |-> {c}, q |-> "1"]
One(cs) == [t |-> "set", cs |-> cs, q |-> "1"]
Opt(cs) == [t |-> "set", cs |-> cs, q |-> "?"]
Star(cs) == [t |-> "set", cs |-> cs, q |-> "*"]
Plus(cs) == [t |-> "set", cs |-> cs, q |-> "+"]
AnyStar == [t |-> "any", cs |-> {}, q |-> "*"]       \* .*
Open == [t |-> "open", cs |-> {}, q |-> "1"]         \* (
Close == [t |-> "close", cs |-> {}, q |-> "1"]       \* )
Eol == [t |-> "eol", cs |-> {}, q |-> "1"]           \* $
Wb == [t |-> "wb", cs |-> {}, q |-> "1"]             \* \b
RECURSIVE WordFrom(_, _)
WordFrom(s, k) ==
  IF k > Len(s) THEN <<>> ELSE <<Lit(SubSeq(s, k, k))>> \o WordFrom(s, k + 1)
\* the letters of s, one after the other
Word(s) == WordFrom(s, 1)

ReFail == [ok |-> FALSE, caps |-> <<>>]

ItemAccepts(it, c) ==
  IF it.t = "any" THEN c \notin LineTerminators ELSE c \in it.cs

\* how many characters from position p on the item can take at most
ReMaxRun(it, s, p) ==
  IF it.q = "?"
  THEN (IF p <= Len(s) /\ ItemAccepts(it, s[p]) THEN 1 ELSE 0)
  ELSE LET stop == {k \in p..Len(s) : ~ItemAccepts(it, s[k])}
       IN IF stop = {} THEN Len(s) - p + 1
          ELSE (CHOOSE k \in stop : \A m \in stop : k <= m) - p

RECURSIVE ReRun(_, _, _, _, _)
RECURSIVE ReTry(_, _, _, _, _, _, _)
\* the longest repetition first, then shorter ones, down to the least allowed
ReTry(re, k, s, p, caps, j, least) ==
  IF j < least THEN ReFail
  ELSE LET r == ReRun(re, k + 1, s, p + j, caps)
       IN IF r.ok THEN r ELSE ReTry(re, k, s, p, caps, j - 1, least)

ReRun(re, k, s, p, caps) ==
  IF k > Len(re) THEN [ok |-> TRUE, caps |-> caps]
  ELSE LET it == re[k]
       IN CASE it.t = "open" -> ReRun(re, k + 1, s, p, Append(caps, <<p, p>>))
            [] it.t = "close" ->
                 ReRun(re, k + 1, s, p,
                       [caps EXCEPT ![Len(caps)] = <<caps[Len(caps)][1], p>>])
            [] it.t = "eol" ->
                 IF p = Len(s) + 1 THEN ReRun(re, k + 1, s, p, caps) ELSE ReFail
            [] it.t = "wb" ->
                 LET before == p > 1 /\ s[p - 1] \in WordChars
                     after == p <= Len(s) /\ s[p] \in WordChars
                 IN IF before # after THEN ReRun(re, k + 1, s, p, caps)
                    ELSE ReFail
            [] it.q = "1" ->
                 IF p <= Len(s) /\ ItemAccepts(it, s[p])
                 THEN ReRun(re, k + 1, s, p + 1, caps)
                 ELSE ReFail
            [] OTHER ->
                 ReTry(re, k, s, p, caps, ReMaxRun(it, s, p),
                       IF it.q = "+" THEN 1 ELSE 0)

\* s.match(new RegExp(pattern, "i")) / s.match(/pattern/): with ci the
\* pattern's letters are written in lower case and the subject is lowered
ReMatch(re, s, ci) == ReRun(re, 1, IF ci THEN ToLower(s) ELSE s, 1, <<>>)

ReTest(re, s, ci) == ReMatch(re, s, ci).ok

\* match[g] ?? "" (the groups of these patterns are never nested)
ReGroup(m, s, g) ==
  IF g <= Len(m.caps) THEN SubSeq(s, m.caps[g][1], m.caps[g][2] - 1) ELSE <<>>


\* ------------------------------------------------------------------------
\* NovelPatternMatcher (patternMatcher.ts)
\* ------------------------------------------------------------------------

\* [:\-–]
Separators == {":", "-", ENDASH}

\* "undefined" and a present number, for number?: number
NoNumber == [has |-> FALSE, val |-> 0]
SomeNumber(n) == [has |-> TRUE, val |-> n]

\* ^kw\s*(\d+)\s*$
ChapterBarePattern(kw) ==
  kw \o <<Star(WhiteSpace), Open, Plus(Digits), Close, Star(WhiteSpace), Eol>>

\* ^kw\s*(\d+)\s*[:\-–]?\s*(.*)$
ChapterTitledPattern(kw) ==
  kw \o <<Star(WhiteSpace), Open, Plus(Digits), Close, Star(WhiteSpace),
          Opt(Separators), Star(WhiteSpace), Open, AnyStar, Close, Eol>>

\* ^pre(\d+)章\s*[:\-–]?\s*(.*)$
ChapterKanjiPattern(pre) ==
  pre \o <<Open, Plus(Digits), Close, Lit(KANJISHO), Star(WhiteSpace),
           Opt(Separators), Star(WhiteSpace), Open, AnyStar, Close, Eol>>

\* ^(kw)\s*[:\-–]?\s*(.*)$
SectionKeywordPattern(kw) ==
  <<Open>> \o kw \o <<Close, Star(WhiteSpace), Opt(Separators),
                      Star(WhiteSpace), Open, AnyStar, Close, Eol>>

\* a faulty pattern: the keyword need not be a whole word
SectionWordPatternUnbounded(kw) ==
  <<Open, AnyStar>> \o kw \o <<AnyStar, Close, Eol>>

\* ^(.*\bkw\b.*)$
SectionWordPattern(kw) ==
  <<Open, AnyStar, Wb>> \o kw \o <<Wb, AnyStar, Close, Eol>>

\* ^(.*kw.*)$
SectionAnywherePattern(kw) ==
  <<Open, AnyStar>> \o kw \o <<AnyStar, Close, Eol>>

\* author[’']?s?\s+foreword
AuthorsForeword ==
  Word("author") \o <<Opt({RSQUO, APOS}), Opt({"s"}), Plus(WhiteSpace)>>
    \o Word("foreword")
\* épilogue
EpilogueFr == <<Lit(EACUTE)>> \o Word("pilogue")
\* avant[-\s]?propos
AvantPropos == Word("avant") \o <<Opt({"-"} \cup WhiteSpace)>> \o Word("propos")
\* the katakana words "puroroogu" and "epiroogu", glyph by glyph
KataPrologue == <<Lit("ka_pu"), Lit("ka_ro"), Lit("ka_ro"), Lit("ka_long"), Lit("ka_gu")>>
KataEpilogue == <<Lit("ka_e"), Lit("ka_pi"), Lit("ka_ro"), Lit("ka_long"), Lit("ka_gu")>>

\* the dialogue lists of PATTERNS
DialogueMarkers ==
  [fr |-> <<EMDASH, ENDASH, "-", LAQUO, LDQUO, DQ>>,
   en |-> <<DQ, LDQUO, LSQUO>>,
   ja |-> <<LCORNER, LWCORNER>>]

PATTERNS ==
  [fr |-> [chapter |-> <<ChapterBarePattern(Word("chapitre")),
                         ChapterTitledPattern(Word("chapitre")),
                         ChapterTitledPattern(Word("partie"))>>,
           dialogue |-> DialogueMarkers.fr,
           section |-> <<SectionKeywordPattern(Word("prologue")),
                         SectionKeywordPattern(EpilogueFr),
                         SectionKeywordPattern(AvantPropos),
                         SectionKeywordPattern(Word("postface")),
                         SectionWordPattern(Word("prologue")),
                         SectionWordPattern(EpilogueFr)>>],
   en |-> [chapter |-> <<ChapterBarePattern(Word("chapter")),
                         ChapterTitledPattern(Word("chapter")),
                         ChapterTitledPattern(Word("part"))>>,
           dialogue |-> DialogueMarkers.en,
           section |-> <<SectionKeywordPattern(Word("prologue")),
                         SectionKeywordPattern(Word("epilogue")),
                         SectionKeywordPattern(AuthorsForeword),
                         SectionKeywordPattern(Word("afterword")),
                         SectionKeywordPattern(Word("intermission")),
                         SectionWordPattern(Word("prologue")),
                         SectionWordPattern(Word("epilogue")),
                         SectionWordPattern(AuthorsForeword),
                         SectionWordPattern(Word("afterword")),
                         SectionWordPattern(Word("intermission"))>>],
   ja |-> [chapter |-> <<ChapterKanjiPattern(<<Lit(KANJIDAI)>>),
                         ChapterKanjiPattern(<<>>)>>,
           dialogue |-> DialogueMarkers.ja,
           section |-> <<SectionKeywordPattern(KataPrologue),
                         SectionKeywordPattern(KataEpilogue),
                         SectionAnywherePattern(KataPrologue),
                         SectionAnywherePattern(KataEpilogue)>>]]

\* PATTERNS[this.language] ?? PATTERNS.en
config(language) ==
  IF language \in DOMAIN PATTERNS THEN PATTERNS[language] ELSE PATTERNS.en

NoChapter == [found |-> FALSE, number |-> NoNumber, title |-> <<>>]

\* a faulty loop: the patterns are matched without the flag "i"
RECURSIVE detectChapterCaseSensitive(_, _, _)
detectChapterCaseSensitive(patterns, k, trimmed) ==
  IF k > Len(patterns) THEN NoChapter
  ELSE LET match == ReMatch(patterns[k], trimmed, FALSE)
       IN IF ~match.ok THEN detectChapterCaseSensitive(patterns, k + 1, trimmed)
          ELSE LET rawNum == Trim(ReGroup(match, trimmed, 1))
                   num == IF rawNum # <<>> /\ \A j \in 1..Len(rawNum) : rawNum[j] \in Digits
                          THEN SomeNumber(DigitsToNumber(rawNum))
                          ELSE NoNumber
                   rawTitle == Trim(ReGroup(match, trimmed, 2))
               IN [found |-> TRUE, number |-> num, title |-> rawTitle]

RECURSIVE detectChapterFrom(_, _, _)
detectChapterFrom(patterns, k, trimmed) ==
  IF k > Len(patterns) THEN NoChapter
  ELSE LET match == ReMatch(patterns[k], trimmed, TRUE)
       IN IF ~match.ok THEN detectChapterFrom(patterns, k + 1, trimmed)
          ELSE LET rawNum == Trim(ReGroup(match, trimmed, 1))
                   num == IF rawNum # <<>> /\ \A j \in 1..Len(rawNum) : rawNum[j] \in Digits
                          THEN SomeNumber(DigitsToNumber(rawNum))
                          ELSE NoNumber
                   rawTitle == Trim(ReGroup(match, trimmed, 2))
               IN [found |-> TRUE, number |-> num, title |-> rawTitle]

detectChapter(language, line) ==
  LET trimmed == Trim(line)
  IN IF trimmed = <<>> THEN NoChapter
     ELSE detectChapterFrom(config(language).chapter, 1, trimmed)

\* /^["“‘«「『]/
OpeningQuotes == {DQ, LDQUO, LSQUO, LAQUO, LCORNER, LWCORNER}

looksLikeOpeningContent(line) ==
  LET t == Trim(line)
  IN \/ (t # <<>> /\ t[1] \in OpeningQuotes)
     \/ EndsWith(t, <<",">>)

\* /[.!?]$/
EndsWithStop(t) == t # <<>> /\ t[Len(t)] \in {".", "!", "?"}

\* upper.length / letters.length > num / den, for letters # ""
UpperRatioAbove(t, num, den) ==
  LET letters == KeepOnly(t, LatinLetters)
      upper == KeepOnly(letters, LatinUpper)
  IN letters # <<>> /\ Len(upper) * den > num * Len(letters)

NoSection == [found |-> FALSE, title |-> <<>>]

RECURSIVE detectSectionFrom(_, _, _)
\* tier 1: the explicit patterns, in order; "none" when no pattern matches
detectSectionFrom(patterns, k, trimmed) ==
  IF k > Len(patterns) THEN [matched |-> FALSE, result |-> NoSection]
  ELSE LET match == ReMatch(patterns[k], trimmed, TRUE)
       IN IF ~match.ok THEN detectSectionFrom(patterns, k + 1, trimmed)
          ELSE LET main == Trim(ReGroup(match, trimmed, 1))
                   rest == Trim(ReGroup(match, trimmed, 2))
                   title == IF rest # <<>> THEN main \o Str(": ") \o rest ELSE main
               IN [matched |-> TRUE,
                   result |-> IF looksLikeOpeningContent(title) THEN NoSection
                              ELSE [found |-> TRUE, title |-> title]]

\* tier 2: the mostly-uppercase short header
shortHeader(trimmed) ==
  /\ Len(trimmed) >= 3 /\ Len(trimmed) <= 80
  /\ UpperRatioAbove(trimmed, 7, 10)
  /\ ~EndsWithStop(trimmed)
  /\ ~EndsWith(trimmed, Str(", "))
  /\ ~EndsWith(trimmed, <<",">>)

\* tier 3: the "newswire" header
newswireHeader(trimmed) ==
  /\ Len(trimmed) >= 10 /\ Len(trimmed) <= 160
  /\ UpperRatioAbove(trimmed, 6, 10)
  /\ CountIn(trimmed, Digits \cup {","}) > 0
  /\ ~EndsWith(trimmed, <<",">>)

\* a faulty detectSection: without the test of looksLikeOpeningContent
detectSectionUnguarded(language, line) ==
  LET trimmed == Trim(line)
      explicit == detectSectionFrom(config(language).section, 1, trimmed)
  IN IF trimmed = <<>> THEN NoSection
     ELSE IF explicit.matched THEN explicit.result
     ELSE IF shortHeader(trimmed) THEN [found |-> TRUE, title |-> trimmed]
     ELSE IF newswireHeader(trimmed) THEN [found |-> TRUE, title |-> trimmed]
     ELSE NoSection

detectSection(language, line) ==
  LET trimmed == Trim(line)
      explicit == detectSectionFrom(config(language).section, 1, trimmed)
  IN IF trimmed = <<>> THEN NoSection
     ELSE IF looksLikeOpeningContent(trimmed) THEN NoSection
     ELSE IF explicit.matched THEN explicit.result
     ELSE IF shortHeader(trimmed) THEN [found |-> TRUE, title |-> trimmed]
     ELSE IF newswireHeader(trimmed) THEN [found |-> TRUE, title |-> trimmed]
     ELSE NoSection

\* this.config.dialogue
getDialogueMarkers(language) ==
  IF language \in DOMAIN DialogueMarkers THEN DialogueMarkers[language]
  ELSE DialogueMarkers.en

\* ^page\s*[|:]\s*\d+\s*$   (flag i)
PageBarPattern ==
  Word("page") \o <<Star(WhiteSpace), One({"|", ":"}), Star(WhiteSpace),
                    Plus(Digits), Star(WhiteSpace), Eol>>
\* ^page\s+\d+\s*$   (flag i)
PageNumPattern ==
  Word("page") \o <<Plus(WhiteSpace), Plus(Digits), Star(WhiteSpace), Eol>>
\* ^\d+\s*\|\s*[Pp]\s*a\s*g\s*e\b
NumBarPagePattern ==
  <<Plus(Digits), Star(WhiteSpace), Lit("|"), Star(WhiteSpace), One({"P", "p"}),
    Star(WhiteSpace), Lit("a"), Star(WhiteSpace), Lit("g"), Star(WhiteSpace),
    Lit("e"), Wb>>

\* NovelPatternMatcher.isPageLine
matcherIsPageLine(line) ==
  LET t == Trim(line)
  IN \/ ReTest(PageBarPattern, t, TRUE)
     \/ ReTest(PageNumPattern, t, TRUE)
     \/ ReTest(NumBarPagePattern, t, FALSE)

isLikelyChapterTitleLine(line) ==
  LET t == Trim(line)
  IN /\ t # <<>>
     /\ ~matcherIsPageLine(t)
     /\ ~looksLikeOpeningContent(t)
     /\ Len(t) >= 3 /\ Len(t) <= 140
     /\ ~EndsWithStop(t)
     /\ CountIn(t, {",", ";", ":"}) < 4


\* ------------------------------------------------------------------------
\* TextProcessor (textProcessor.ts)
\* ------------------------------------------------------------------------

sentenceEndings == <<Str("."), Str("!"), Str("?"), Str("..."),
                     <<CJKSTOP>>, <<FWEXCL>>, <<FWQUEST>>>>

\* [◊◇◆✦*]
SceneGlyphs == {LOZENGE, WDIAMOND, BDIAMOND, STAR4, "*"}

\* position of the first character at or after p that is not white space
\* (Len(s) + 1 when there is none): where a greedy \s* started at p ends
SkipSpace(s, p) ==
  LET stop == {k \in p..Len(s) : s[k] \notin WhiteSpace}
  IN IF stop = {} THEN Len(s) + 1 ELSE CHOOSE k \in stop : \A m \in stop : k <= m

\* text.replace(/\r\n?/g, "\n")
RECURSIVE NormalizeNewlines(_)
NormalizeNewlines(s) ==
  IF s = <<>> THEN <<>>
  ELSE IF s[1] = CR
       THEN <<NL>> \o NormalizeNewlines(
              IF Len(s) >= 2 /\ s[2] = NL THEN SubSeq(s, 3, Len(s)) ELSE Tail(s))
  ELSE <<s[1]>> \o NormalizeNewlines(Tail(s))

\* end of a match of g\s*g\s*g starting at p (0 when there is none)
SceneTripleEnd(s, p) ==
  IF p > Len(s) \/ s[p] \notin SceneGlyphs THEN 0
  ELSE LET g == s[p]
           p2 == SkipSpace(s, p + 1)
           p3 == IF p2 <= Len(s) THEN SkipSpace(s, p2 + 1) ELSE Len(s) + 1
       IN IF p2 <= Len(s) /\ s[p2] = g /\ p3 <= Len(s) /\ s[p3] = g THEN p3
          ELSE 0

\* text.replace(/(◊\s*◊\s*◊|◇\s*◇\s*◇|◆\s*◆\s*◆|✦\s*✦\s*✦|\*\s*\*\s*\*)/gu, "\n$1\n")
RECURSIVE splitOnSceneBreakers(_)
splitOnSceneBreakers(s) ==
  IF s = <<>> THEN <<>>
  ELSE LET e == SceneTripleEnd(s, 1)
       IN IF e > 0
          THEN <<NL>> \o SubSeq(s, 1, e) \o <<NL>>
                 \o splitOnSceneBreakers(SubSeq(s, e + 1, Len(s)))
          ELSE <<s[1]>> \o splitOnSceneBreakers(Tail(s))

\* text.replace(new RegExp(`\\s*${opener}`, "g"), `\n${opener}`)
RECURSIVE ReplaceBeforeOpener(_, _)
ReplaceBeforeOpener(s, opener) ==
  IF s = <<>> THEN <<>>
  ELSE LET q == SkipSpace(s, 1)
       IN IF q <= Len(s) /\ s[q] = opener
          THEN <<NL, opener>> \o ReplaceBeforeOpener(SubSeq(s, q + 1, Len(s)), opener)
          ELSE <<s[1]>> \o ReplaceBeforeOpener(Tail(s), opener)

openers == <<DQ, LDQUO, LAQUO, LWCORNER, LCORNER>>

RECURSIVE splitOnDialogueOpenersFrom(_, _)
splitOnDialogueOpenersFrom(s, k) ==
  IF k > Len(openers) THEN s
  ELSE splitOnDialogueOpenersFrom(ReplaceBeforeOpener(s, openers[k]), k + 1)

splitOnDialogueOpeners(txt) == splitOnDialogueOpenersFrom(txt, 1)

\* end of a match of \n\s*\n+ starting at p (0 when there is none): the
\* last line feed of the white space that follows the line feed at p
ParagraphBreakEnd(s, p) ==
  IF p > Len(s) \/ s[p] # NL THEN 0
  ELSE LET q == SkipSpace(s, p + 1)
           feeds == {k \in (p + 1)..(q - 1) : s[k] = NL}
       IN IF feeds = {} THEN 0 ELSE CHOOSE k \in feeds : \A m \in feeds : k >= m

\* normalized.split(/\n\s*\n+/)
RECURSIVE SplitParagraphs(_, _)
SplitParagraphs(s, acc) ==
  IF s = <<>> THEN <<acc>>
  ELSE LET e == ParagraphBreakEnd(s, 1)
       IN IF e > 0 THEN <<acc>> \o SplitParagraphs(SubSeq(s, e + 1, Len(s)), <<>>)
          ELSE SplitParagraphs(Tail(s), Append(acc, s[1]))

\* seq.map(f).filter(nonempty) for f = trim
RECURSIVE TrimAll(_)
TrimAll(parts) ==
  IF parts = <<>> THEN <<>> ELSE <<Trim(parts[1])>> \o TrimAll(Tail(parts))

NonEmpty(s) == s # <<>>

\* ^\d+\s+page\b   (flag i)
NumPagePattern == <<Plus(Digits), Plus(WhiteSpace)>> \o Word("page") \o <<Wb>>

\* /^["“”«»『』「」]+$/
QuoteNoise == {DQ, LDQUO, RDQUO, LAQUO, RAQUO, LWCORNER, RWCORNER, LCORNER, RCORNER}

isValidLine(line) ==
  LET trimmed == Trim(line)
  IN /\ trimmed # <<>>
     /\ ~StartsWith(trimmed, Str("http://"))
     /\ ~StartsWith(trimmed, Str("https://"))
     /\ ~(\A k \in 1..Len(trimmed) : trimmed[k] \in QuoteNoise)
     /\ ~ReTest(NumBarPagePattern, trimmed, FALSE)
     /\ ~ReTest(NumPagePattern, trimmed, TRUE)
     /\ ~ReTest(PageBarPattern, trimmed, TRUE)
     /\ ~ReTest(PageNumPattern, trimmed, TRUE)

\* this.dialogueMarkers.find((m) => trimmed.startsWith(m)): its index, or 0
FindMarker(markers, trimmed) ==
  LET hits == {k \in 1..Len(markers) : StartsWith(trimmed, <<markers[k]>>)}
  IN IF hits = {} THEN 0 ELSE CHOOSE k \in hits : \A m \in hits : k <= m

\* a faulty isDialogueStart: one straight quote is enough
isDialogueStartAnyQuote(language, line) ==
  LET trimmed == Trim(line)
  IN trimmed # <<>> /\ FindMarker(getDialogueMarkers(language), trimmed) # 0

isDialogueStart(language, line) ==
  LET trimmed == Trim(line)
      markers == getDialogueMarkers(language)
      found == FindMarker(markers, trimmed)
  IN IF trimmed = <<>> THEN FALSE
     ELSE IF found = 0 THEN FALSE
     ELSE IF markers[found] # DQ THEN TRUE
     ELSE CountIn(trimmed, {DQ}) >= 2

\* trimmed.replace(/[”"'»」』]+$/u, "")
RECURSIVE StripClosers(_)
StripClosers(s) ==
  IF s # <<>> /\ s[Len(s)] \in {RDQUO, DQ, APOS, RAQUO, RCORNER, RWCORNER}
  THEN StripClosers(SubSeq(s, 1, Len(s) - 1))
  ELSE s

isSentenceEnd(line) ==
  LET trimmed == StripClosers(Trim(line))
  IN \E k \in 1..Len(sentenceEndings) : EndsWith(trimmed, sentenceEndings[k])

\* str.replace(/c/g, to) for a character c
RECURSIVE ReplaceChar(_, _, _)
ReplaceChar(s, c, to) ==
  IF s = <<>> THEN <<>>
  ELSE (IF s[1] = c THEN to ELSE <<s[1]>>) \o ReplaceChar(Tail(s), c, to)

\* a faulty escape: the ampersand is replaced last
escapeHtmlAmpersandLast(s) ==
  ReplaceChar(ReplaceChar(ReplaceChar(s, "<", Str("&lt;")), ">", Str("&gt;")),
              "&", Str("&amp;"))

\* str.replace(/&/g, "&amp;").replace(/</g, "&lt;").replace(/>/g, "&gt;")
escapeHtml(s) ==
  ReplaceChar(ReplaceChar(ReplaceChar(s, "&", Str("&amp;")), "<", Str("&lt;")),
              ">", Str("&gt;"))

\* /^([◊◇◆✦*]\s*){3,}$/u on the trimmed line
isSceneBreak(line) ==
  LET trimmed == Trim(line)
  IN /\ trimmed # <<>>
     /\ trimmed[1] \in SceneGlyphs
     /\ \A k \in 1..Len(trimmed) : trimmed[k] \in SceneGlyphs \cup WhiteSpace
     /\ CountIn(trimmed, SceneGlyphs) >= 3

\* a faulty cleanNonDialogueQuoteLine: the line is left as it is
keepQuoteLine(language, line) == line

cleanNonDialogueQuoteLine(language, line) ==
  LET trimmedLeft == TrimStart(line)
      quotes == {k \in 1..Len(line) : line[k] = DQ}
      firstQuoteIndex == CHOOSE k \in quotes : \A m \in quotes : k <= m
  IN IF ~StartsWith(trimmedLeft, <<DQ>>) THEN line
     ELSE IF isDialogueStart(language, line) THEN line
     ELSE SubSeq(line, 1, firstQuoteIndex - 1)
            \o SubSeq(line, firstQuoteIndex + 1, Len(line))

\* line.replace(/\s+/g, " ")
RECURSIVE CollapseSpace(_)
CollapseSpace(s) ==
  IF s = <<>> THEN <<>>
  ELSE IF s[1] \in WhiteSpace
       THEN <<SP>> \o CollapseSpace(SubSeq(s, SkipSpace(s, 1), Len(s)))
  ELSE <<s[1]>> \o CollapseSpace(Tail(s))

ParagraphHtml(txt) == Str("<p>") \o escapeHtml(Trim(txt)) \o Str("</p>")
DialogueHtml(txt) ==
  Str("<blockquote>") \o escapeHtml(Trim(txt)) \o Str("</blockquote>")
SceneBreakHtml(line) ==
  Str("<p class=\"scene-break\">") \o escapeHtml(Trim(CollapseSpace(line)))
    \o Str("</p>")

\* the block pushed when the accumulator is flushed
FlushBlock(cur, inDlg) ==
  [type |-> IF inDlg THEN "dialogue" ELSE "paragraph",
   html |-> IF inDlg THEN DialogueHtml(cur) ELSE ParagraphHtml(cur)]

\* a faulty accumulation: the line replaces the accumulator
AccumulateLast(cur, line) == line

\* current += (current ? " " : "") + line
Accumulate(cur, line) ==
  cur \o (IF cur # <<>> THEN <<SP>> ELSE <<>>) \o line

\* a faulty iteration: a dialogue-start line met in a dialogue is joined to
\* the accumulator
SegmentLineJoining(language, st, line) ==
  IF isSceneBreak(line)
  THEN LET flushed == IF st.current # <<>>
                      THEN Append(st.blocks, FlushBlock(st.current, st.inDialogue))
                      ELSE st.blocks
       IN [current |-> <<>>,
           inDialogue |-> IF st.current # <<>> THEN FALSE ELSE st.inDialogue,
           blocks |-> Append(flushed,
                             [type |-> "paragraph", html |-> SceneBreakHtml(line)])]
  ELSE IF isDialogueStart(language, line) /\ ~st.inDialogue
  THEN LET flushed == IF st.current # <<>>
                      THEN Append(st.blocks, FlushBlock(st.current, st.inDialogue))
                      ELSE st.blocks
       IN IF isSentenceEnd(line)
          THEN [current |-> <<>>, inDialogue |-> FALSE,
                blocks |-> Append(flushed,
                                  [type |-> "dialogue", html |-> DialogueHtml(line)])]
          ELSE [current |-> line, inDialogue |-> TRUE, blocks |-> flushed]
  ELSE IF st.inDialogue
  THEN LET joined == Accumulate(st.current, line)
       IN IF isSentenceEnd(line)
          THEN [current |-> <<>>, inDialogue |-> FALSE,
                blocks |-> Append(st.blocks,
                                  [type |-> "dialogue", html |-> DialogueHtml(joined)])]
          ELSE [current |-> joined, inDialogue |-> TRUE, blocks |-> st.blocks]
  ELSE LET joined == Accumulate(st.current, line)
       IN IF isSentenceEnd(line)
          THEN [current |-> <<>>, inDialogue |-> FALSE,
                blocks |-> Append(st.blocks,
                                  [type |-> "paragraph", html |-> ParagraphHtml(joined)])]
          ELSE [current |-> joined, inDialogue |-> FALSE, blocks |-> st.blocks]

\* one iteration of the loop of processParagraphSequential over a (cleaned)
\* line; st = [current, inDialogue, blocks]
SegmentLine(language, st, line) ==
  IF isSceneBreak(line)
  THEN LET flushed == IF st.current # <<>>
                      THEN Append(st.blocks, FlushBlock(st.current, st.inDialogue))
                      ELSE st.blocks
       IN [current |-> <<>>,
           inDialogue |-> IF st.current # <<>> THEN FALSE ELSE st.inDialogue,
           blocks |-> Append(flushed,
                             [type |-> "paragraph", html |-> SceneBreakHtml(line)])]
  ELSE IF isDialogueStart(language, line)
  THEN LET flushed == IF st.current # <<>>
                      THEN Append(st.blocks, FlushBlock(st.current, st.inDialogue))
                      ELSE st.blocks
       IN IF isSentenceEnd(line)
          THEN [current |-> <<>>, inDialogue |-> FALSE,
                blocks |-> Append(flushed,
                                  [type |-> "dialogue", html |-> DialogueHtml(line)])]
          ELSE [current |-> line, inDialogue |-> TRUE, blocks |-> flushed]
  ELSE IF st.inDialogue
  THEN LET joined == Accumulate(st.current, line)
       IN IF isSentenceEnd(line)
          THEN [current |-> <<>>, inDialogue |-> FALSE,
                blocks |-> Append(st.blocks,
                                  [type |-> "dialogue", html |-> DialogueHtml(joined)])]
          ELSE [current |-> joined, inDialogue |-> TRUE, blocks |-> st.blocks]
  ELSE LET joined == Accumulate(st.current, line)
       IN IF isSentenceEnd(line)
          THEN [current |-> <<>>, inDialogue |-> FALSE,
                blocks |-> Append(st.blocks,
                                  [type |-> "paragraph", html |-> ParagraphHtml(joined)])]
          ELSE [current |-> joined, inDialogue |-> FALSE, blocks |-> st.blocks]

\* the final flush of processParagraphSequential
SegmentEnd(st) ==
  IF st.current # <<>>
  THEN Append(st.blocks, FlushBlock(st.current, st.inDialogue))
  ELSE st.blocks

\* paragraph.split("\n").map(trim).filter(isValidLine)
RECURSIVE ValidLines(_)
ValidLines(ls) ==
  IF ls = <<>> THEN <<>>
  ELSE LET l == Trim(ls[1])
       IN (IF isValidLine(l) THEN <<l>> ELSE <<>>) \o ValidLines(Tail(ls))

\* rawLines.map((line) => this.cleanNonDialogueQuoteLine(line))
RECURSIVE CleanAll(_, _)
CleanAll(lang, ls) ==
  IF ls = <<>> THEN <<>>
  ELSE <<cleanNonDialogueQuoteLine(lang, ls[1])>> \o CleanAll(lang, Tail(ls))

ParagraphLines(language, paragraph) ==
  CleanAll(language, ValidLines(SplitOn(paragraph, NL)))

RECURSIVE SegmentLines(_, _, _)
SegmentLines(language, st, ls) ==
  IF ls = <<>> THEN st
  ELSE SegmentLines(language, SegmentLine(language, st, ls[1]), Tail(ls))

processParagraphSequential(language, paragraph, out) ==
  LET ls == ParagraphLines(language, paragraph)
  IN IF ls = <<>> THEN out
     ELSE SegmentEnd(SegmentLines(language,
            [current |-> <<>>, inDialogue |-> FALSE, blocks |-> out], ls))

\* the paragraph groups of processContent: normalise, isolate scene breaks,
\* split before dialogue openers, split on blank lines, trim, drop empty
ParagraphsOf(txt) ==
  SelectSeq(
    TrimAll(SplitParagraphs(
      splitOnDialogueOpeners(splitOnSceneBreakers(NormalizeNewlines(txt))), <<>>)),
    NonEmpty)

RECURSIVE processParagraphs(_, _, _)
processParagraphs(language, paras, out) ==
  IF paras = <<>> THEN out
  ELSE processParagraphs(language, Tail(paras),
         processParagraphSequential(language, paras[1], out))

processContent(language, txt) ==
  processParagraphs(language, ParagraphsOf(txt), <<>>)


\* ------------------------------------------------------------------------
\* convertBlocksToNovel (storage.ts): the helpers
\* ------------------------------------------------------------------------

isPageLine(line) ==
  LET t == Trim(line)
  IN /\ t # <<>>
     /\ \/ ReTest(PageBarPattern, t, TRUE)
        \/ ReTest(PageNumPattern, t, TRUE)
        \/ ReTest(NumBarPagePattern, t, FALSE)

isHeaderContinuation(line) ==
  LET t == Trim(line)
  IN /\ t # <<>>
     /\ ~EndsWithStop(t)
     /\ ~looksLikeOpeningContent(t)
     /\ Len(t) >= 3 /\ Len(t) <= 140
     /\ UpperRatioAbove(t, 7, 10)

\* /[:\-–]\s*$/
endsLikeHeadingPrefix(line) ==
  LET t == Trim(line)
  IN t # <<>> /\ t[Len(t)] \in Separators

isAllCapsWord(w) ==
  LET letters == KeepOnly(w, AsciiUpper \cup AsciiLower)
  IN /\ Len(letters) >= 2
     /\ \A k \in 1..Len(letters) : letters[k] \in AsciiUpper

\* t.split(/\s+/) for a trimmed, non-empty t
RECURSIVE SplitWords(_)
SplitWords(t) ==
  LET gaps == {k \in 1..Len(t) : t[k] \in WhiteSpace}
  IN IF gaps = {} THEN <<t>>
     ELSE LET k == CHOOSE g \in gaps : \A m \in gaps : g <= m
          IN <<SubSeq(t, 1, k - 1)>> \o SplitWords(SubSeq(t, SkipSpace(t, k), Len(t)))

\* tokens.slice(from - 1, to).join(" ").trim(), positions counted from 1
JoinTokens(tokens, from, to) == Trim(JoinWith(SubSeq(tokens, from, to), <<SP>>))

\* the first index i (from 1) at which the title / body split applies, or 0
SplitIndex(tokens) ==
  LET ok == {at \in 1..(Len(tokens) - 2) :
               /\ isAllCapsWord(tokens[at])
               /\ isAllCapsWord(tokens[at + 1])
               /\ isAllCapsWord(tokens[at + 2])
               /\ CountIn(JoinWith(SubSeq(tokens, at, Len(tokens)), <<SP>>), AsciiLower) > 0
               /\ Len(JoinTokens(tokens, 1, at - 1)) >= 6
               /\ Len(JoinTokens(tokens, at, Len(tokens))) >= 20}
  IN IF ok = {} THEN 0 ELSE CHOOSE at \in ok : \A m \in ok : at <= m

\* a faulty split: the title keeps the whole line
splitKeepsLine(line) ==
  LET t == Trim(line)
      tokens == SplitWords(t)
      splitAt == SplitIndex(tokens)
  IN IF t = <<>> THEN [title |-> <<>>, remainder |-> <<>>]
     ELSE IF Len(tokens) < 6 THEN [title |-> t, remainder |-> <<>>]
     ELSE IF splitAt = 0 THEN [title |-> t, remainder |-> <<>>]
     ELSE [title |-> t,
           remainder |-> JoinTokens(tokens, splitAt, Len(tokens))]

splitTitleFromMixedLine(line) ==
  LET t == Trim(line)
      tokens == SplitWords(t)
      splitAt == SplitIndex(tokens)
  IN IF t = <<>> THEN [title |-> <<>>, remainder |-> <<>>]
     ELSE IF Len(tokens) < 6 THEN [title |-> t, remainder |-> <<>>]
     ELSE IF splitAt = 0 THEN [title |-> t, remainder |-> <<>>]
     ELSE [title |-> JoinTokens(tokens, 1, splitAt - 1),
           remainder |-> JoinTokens(tokens, splitAt, Len(tokens))]

\* lines[j] ?? "", positions counted from 1
LineAt(ls, j) == IF j \in 1..Len(ls) THEN ls[j] ELSE <<>>

KeepHeading(chapLine) ==
  [finalTitle |-> Trim(chapLine), consumed |-> 1, remainderToText |-> <<>>]

\* Case C of consumeChapterHeading: the loop over j
RECURSIVE mergeNextTitle(_, _, _, _, _)
mergeNextTitle(language, ls, startIndex, chapLine, j) ==
  IF j > Len(ls) THEN KeepHeading(chapLine)
  ELSE LET next == Trim(LineAt(ls, j))
           next2 == Trim(LineAt(ls, j + 1))
           takes2 == next2 # <<>> /\ ~isPageLine(next2) /\ isHeaderContinuation(next2)
           full == IF takes2 THEN next \o <<SP>> \o next2 ELSE next
           split == splitTitleFromMixedLine(full)
           prefix == Trim(chapLine)
           final == IF split.title # <<>> THEN prefix \o <<SP>> \o split.title
                    ELSE prefix
       IN IF next = <<>> THEN mergeNextTitle(language, ls, startIndex, chapLine, j + 1)
          ELSE IF isPageLine(next)
          THEN mergeNextTitle(language, ls, startIndex, chapLine, j + 1)
          ELSE IF looksLikeOpeningContent(next) THEN KeepHeading(chapLine)
          ELSE IF ~isLikelyChapterTitleLine(next) /\ ~isHeaderContinuation(next)
          THEN KeepHeading(chapLine)
          ELSE [finalTitle |-> Trim(final),
                consumed |-> (j - startIndex + 1) + (IF takes2 THEN 1 ELSE 0),
                remainderToText |-> split.remainder]

\* a faulty consumeChapterHeading: without Case B, so that a heading with no
\* separator at its end also takes the next line
consumeChapterHeadingEager(language, ls, startIndex, chapLine) ==
  LET det == detectChapter(language, chapLine)
  IN IF ~det.found THEN KeepHeading(chapLine)
     ELSE IF Trim(det.title) # <<>> THEN KeepHeading(chapLine)
     ELSE mergeNextTitle(language, ls, startIndex, chapLine, startIndex + 1)

consumeChapterHeading(language, ls, startIndex, chapLine) ==
  LET det == detectChapter(language, chapLine)
  IN IF ~det.found THEN KeepHeading(chapLine)
     ELSE IF Trim(det.title) # <<>> THEN KeepHeading(chapLine)
     ELSE IF ~endsLikeHeadingPrefix(chapLine) THEN KeepHeading(chapLine)
     ELSE mergeNextTitle(language, ls, startIndex, chapLine, startIndex + 1)

\* The repository holds two copies of convertBlocksToNovel: the one of
\* libs/novel/storage.ts and the earlier one of libs/novel/converter.ts.
\* They share flushPendingText, pushCurrentChapter, the main loop and the
\* table of contents; they differ in the page-line skip, in the title a
\* chapter heading gets, in isHeaderContinuation and in the fallback title.
Variants == {"storage", "converter"}

\* isHeaderContinuation of converter.ts
converterIsHeaderContinuation(line) ==
  LET trimmed == Trim(line)
  IN /\ trimmed # <<>>
     /\ ~EndsWithStop(trimmed)
     /\ Len(trimmed) >= 5 /\ Len(trimmed) <= 140
     /\ UpperRatioAbove(trimmed, 7, 10)

\* the section branch's loop over j: [title, i] after merging the heading
\* continuation lines that follow line i
RECURSIVE mergeSectionTitle(_, _, _, _, _)
mergeSectionTitle(v, ls, fullTitle, at, j) ==
  IF j > Len(ls) THEN [fullTitle |-> fullTitle, i |-> at]
  ELSE LET nextLine == Trim(LineAt(ls, j))
           continues == IF v = "storage" THEN isHeaderContinuation(nextLine)
                        ELSE converterIsHeaderContinuation(nextLine)
       IN IF nextLine = <<>> THEN mergeSectionTitle(v, ls, fullTitle, at, j + 1)
          ELSE IF v = "storage" /\ isPageLine(nextLine)
          THEN mergeSectionTitle(v, ls, fullTitle, at, j + 1)
          ELSE IF ~continues THEN [fullTitle |-> fullTitle, i |-> at]
          ELSE mergeSectionTitle(v, ls, fullTitle \o <<SP>> \o nextLine,
                                 j, j + 1)

\* currentBlocks.push({id: nanoid(), type: p.type, html: p.html}) for each
\* processed fragment; the id is an opaque random token that nothing reads
\* and is left out of the block
\* nanoid(): an opaque token, the n-th one drawn in this call
nanoid(n) == <<"nanoid", seed, n>>

RECURSIVE BlockCount(_)
BlockCount(cs) == IF cs = <<>> THEN 0 ELSE Len(cs[1].blocks) + BlockCount(Tail(cs))

\* how many ids the call has drawn: one per block it has made
idsDrawn(as) == BlockCount(as.chapters) + Len(as.currentBlocks)

TextBlock(p, n) ==
  [id |-> nanoid(n), type |-> p.type, html |-> p.html, src |-> <<>>, alt |-> <<>>]
ImageBlock(r, n) ==
  [id |-> nanoid(n), type |-> "image", html |-> <<>>, src |-> r.dataUrl, alt |-> r.alt]

RECURSIVE TextBlocks(_, _)
TextBlocks(processed, n) ==
  IF processed = <<>> THEN <<>>
  ELSE <<TextBlock(processed[1], n + 1)>> \o TextBlocks(Tail(processed), n + 1)

\* a faulty flush: the pending text is thrown away
flushPendingTextLost(language, as) == [as EXCEPT !.pendingText = <<>>]

\* flushPendingText, on as = [pendingText, currentBlocks, currentTitle,
\* currentNumber, chapterCount, chapters]
flushPendingText(language, as) ==
  LET trimmed == Trim(as.pendingText)
  IN IF trimmed = <<>> THEN as
     ELSE [as EXCEPT !.currentBlocks = @ \o TextBlocks(processContent(language, trimmed),
                                                            idsDrawn(as)),
                     !.pendingText = <<>>]

\* a chapter id drawn from nanoid() instead of the counter
nanoidChapterId(n) == Str("chapter-") \o NumberToDigits(seed * 10 + n)

ChapterId(n) == Str("chapter-") \o NumberToDigits(n)

\* `Chapter ${number}` (storage.ts), `Chapitre ${number}` (converter.ts)
FallbackTitle(v, number) ==
  (IF v = "storage" THEN Str("Chapter ") ELSE Str("Chapitre "))
    \o NumberToDigits(number)

\* chapterCount++; chapters.push({...}); and the three resets
pushChapter(v, f, count, id, number) ==
  [f EXCEPT !.chapterCount = count,
            !.chapters = Append(@, [id |-> id,
                                    number |-> number,
                                    title |-> IF f.currentTitle # <<>>
                                              THEN f.currentTitle
                                              ELSE FallbackTitle(v, number),
                                    blocks |-> f.currentBlocks]),
            !.currentBlocks = <<>>,
            !.currentTitle = <<>>,
            !.currentNumber = NoNumber]

\* const number = currentNumber ?? chapterCount
numberOr(currentNum, count) == IF currentNum.has THEN currentNum.val ELSE count

\* faulty pushes: without the guard on currentBlocks.length; with the id
\* built from the number; with || in place of ??
pushAlways(v, f) ==
  pushChapter(v, f, f.chapterCount + 1, ChapterId(f.chapterCount + 1),
              numberOr(f.currentNumber, f.chapterCount + 1))

pushNumberedId(v, f) ==
  IF f.currentBlocks = <<>> THEN f
  ELSE pushChapter(v, f, f.chapterCount + 1,
                   ChapterId(numberOr(f.currentNumber, f.chapterCount + 1)),
                   numberOr(f.currentNumber, f.chapterCount + 1))

pushTruthyNumber(v, f) ==
  IF f.currentBlocks = <<>> THEN f
  ELSE pushChapter(v, f, f.chapterCount + 1, ChapterId(f.chapterCount + 1),
                   IF f.currentNumber.has /\ f.currentNumber.val # 0
                   THEN f.currentNumber.val ELSE f.chapterCount + 1)

\* the push of pushCurrentChapter, after the flush
pushFlushed(v, f) ==
  IF f.currentBlocks = <<>> THEN f
  ELSE pushChapter(v, f, f.chapterCount + 1, ChapterId(f.chapterCount + 1),
                   numberOr(f.currentNumber, f.chapterCount + 1))

pushCurrentChapter(v, language, as) ==
  pushFlushed(v, flushPendingText(language, as))

\* pendingText += (pendingText ? "\n" : "") + line
AppendPending(pending, line) ==
  pending \o (IF pending # <<>> THEN <<NL>> ELSE <<>>) \o line

\* a faulty table of contents: chapterNumber taken from the position
tocByPosition(cs) ==
  [n \in 1..Len(cs) |->
     [id |-> cs[n].id, label |-> cs[n].title, chapterNumber |-> n]]

\* chapters.filter((c) => c.title.trim().length > 0).map(...)
RECURSIVE tocOf(_)
tocOf(cs) ==
  IF cs = <<>> THEN <<>>
  ELSE (IF Len(Trim(cs[1].title)) > 0
        THEN <<[id |-> cs[1].id, label |-> cs[1].title, chapterNumber |-> cs[1].number]>>
        ELSE <<>>) \o tocOf(Tail(cs))


\* ------------------------------------------------------------------------
\* The state: its parts, and each machine's state when it is not running
\* ------------------------------------------------------------------------

asmVars == <<seed, firstResult, variant, options, rawBlocks, pc, blockIndex, lines, i, pendingText,
             currentBlocks, currentTitle, currentNumber, chapterCount, chapters,
             result>>
tpVars == <<text, tpc, paragraphs, paragraphIndex, rawLines, cleanLines,
            lineIndex, current,
            inDialogue, blocks>>
probeVars == <<probeLine, probed, dialogueStart>>

encVars == <<img, encPc, rawBuffer, y, x, pngBase64>>
pdfVars == <<pdf, pdfPc, pageIndex, imageIndex, imagesOnPage, totalImages, pdfBlocks>>
sectionVars == <<sectionLine, sectionPc, section>>
matchVars == <<matcherLanguage, chapterLine, matched, chapter, sectionVars>>

readerVars == <<currentNovel, currentNovelId, bookmarksByNovelId, recents, storeCall>>
legacyVars == <<novel, novelId, bookmark, localStorage>>
pageVars == <<loading, progress, error, logs, progressTimerRef, ticks, requests, novelDb>>
clientVars == <<readerVars, legacyVars, pageVars>>

vars == <<asmVars, tpLanguage, tpVars, probeVars, encVars, pdfVars, matchVars, clientVars>>

Undefined == <<"undefined">>
NoNovel == <<>>

AsmIdle ==
  /\ seed = 1
  /\ firstResult = NoNovel
  /\ variant = "storage"
  /\ options = [title |-> <<>>, language |-> "en", author |-> Undefined,
                series |-> Undefined, volume |-> Undefined]
  /\ rawBlocks = <<>>
  /\ pc = "idle"
  /\ blockIndex = 1
  /\ lines = <<>>
  /\ i = 1
  /\ pendingText = <<>>
  /\ currentBlocks = <<>>
  /\ currentTitle = <<>>
  /\ currentNumber = NoNumber
  /\ chapterCount = 0
  /\ chapters = <<>>
  /\ result = NoNovel

TpIdle ==
  /\ text = <<>>
  /\ tpc = "idle"
  /\ paragraphs = <<>>
  /\ paragraphIndex = 1
  /\ rawLines = <<>>
  /\ cleanLines = <<>>
  /\ lineIndex = 1
  /\ current = <<>>
  /\ inDialogue = FALSE
  /\ blocks = <<>>

ProbeIdle ==
  /\ probeLine = <<>>
  /\ probed = FALSE
  /\ dialogueStart = FALSE

EncIdle ==
  /\ img = [width |-> 0, height |-> 0, data |-> <<>>]
  /\ encPc = "idle"
  /\ rawBuffer = <<>>
  /\ y = 0
  /\ x = 0
  /\ pngBase64 = <<>>

SectionIdle ==
  /\ sectionLine = <<>>
  /\ sectionPc = "idle"
  /\ section = NoSection

MatchIdle ==
  /\ matcherLanguage = "en"
  /\ chapterLine = <<>>
  /\ matched = FALSE
  /\ chapter = NoChapter
  /\ SectionIdle

\* null, where a string is expected and where an object is
Null == <<"null">>
NullObject == [null |-> TRUE]

\* the initial state of the store
ReaderIdle ==
  /\ currentNovel = NullObject
  /\ currentNovelId = Null
  /\ bookmarksByNovelId = <<>>
  /\ recents = <<>>
  /\ storeCall = [op |-> "none"]

\* the store of src/store/useReaderStore.ts before any call, and an empty
\* localStorage
LegacyIdle ==
  /\ novel = NullObject
  /\ novelId = Null
  /\ bookmark = NullObject
  /\ localStorage = <<>>

\* the upload page as first rendered
PageIdle ==
  /\ loading = FALSE
  /\ progress = 0
  /\ error = Null
  /\ logs = <<>>
  /\ progressTimerRef = Null
  /\ ticks = 0
  /\ requests = <<>>
  /\ novelDb = <<>>

ClientIdle == ReaderIdle /\ LegacyIdle /\ PageIdle

PdfIdle ==
  /\ pdf = <<>>
  /\ pdfPc = "idle"
  /\ pageIndex = 0
  /\ imageIndex = 1
  /\ imagesOnPage = 0
  /\ totalImages = 0
  /\ pdfBlocks = <<>>


\* ------------------------------------------------------------------------
\* convertBlocksToNovel: the state machine.  One action per iteration of
\* the loop over the raw blocks and of the loop over a text block's lines,
\* and one for the tail of the function.
\* ------------------------------------------------------------------------

\* the assembler's mutable locals as one record, and back
asm == [pendingText |-> pendingText, currentBlocks |-> currentBlocks,
        currentTitle |-> currentTitle, currentNumber |-> currentNumber,
        chapterCount |-> chapterCount, chapters |-> chapters]

SetAsm(as) ==
  /\ pendingText' = as.pendingText
  /\ currentBlocks' = as.currentBlocks
  /\ currentTitle' = as.currentTitle
  /\ currentNumber' = as.currentNumber
  /\ chapterCount' = as.chapterCount
  /\ chapters' = as.chapters

\* --- the inputs ---

\* longest input, counted in lines, images and page breaks
MaxItems == 4

Languages == {"en", "fr", "ja"}

\* the pieces of text a page may hold
Vocabulary ==
  <<Str("Chapter 7: Go"),       \* heading with inline number and title
    Str("Chapter 0"),           \* heading with a number only
    Str("Part 7 -"),            \* heading prefix, title on the next line
    Str("PROLOGUE"),            \* section heading
    Str("It ran.") \o <<NL>>,   \* a sentence, a blank line after it
    <<DQ>>>>                    \* a stray quote: text that yields no block

ImageItem == Len(Vocabulary) + 1
BreakItem == Len(Vocabulary) + 2
Items == 1..BreakItem

TextRaw(page, ls) ==
  [kind |-> "text", pageIndex |-> page, order |-> 1,
   text |-> JoinWith(ls, <<NL>>), dataUrl |-> <<>>, alt |-> <<>>]
ImageRaw(page) ==
  [kind |-> "image", pageIndex |-> page, order |-> 0, text |-> <<>>,
   dataUrl |-> Str("data:image/png;base64,") \o NumberToDigits(page),
   alt |-> Str("Image p.") \o NumberToDigits(page + 1)]

\* the raw blocks a script of items stands for: the pieces between two
\* breaks or images are one page's text block
RECURSIVE BlocksOf(_, _, _)
BlocksOf(script, page, ls) ==
  LET closed == IF ls = <<>> THEN <<>> ELSE <<TextRaw(page, ls)>>
      after == IF ls = <<>> THEN page ELSE page + 1
  IN IF script = <<>> THEN closed
     ELSE IF script[1] = BreakItem THEN closed \o BlocksOf(Tail(script), after, <<>>)
     ELSE IF script[1] = ImageItem
     THEN closed \o <<ImageRaw(after)>> \o BlocksOf(Tail(script), after, <<>>)
     ELSE BlocksOf(Tail(script), page, Append(ls, Vocabulary[script[1]]))

ScriptsUpTo(n) == UNION {[1..m -> Items] : m \in 0..n}

\* the end-to-end example of the specification
ExampleLines ==
  <<Str("Chapter 1: Arrival"), Str("The sky was red."),
    Str("\"Stop!\" she shouted."), Str("\"Why?\" he asked.")>>

ExampleBlocks ==
  <<TextRaw(0, SubSeq(ExampleLines, 1, 2)), TextRaw(1, SubSeq(ExampleLines, 3, 4))>>

\* a page with a footer line
FooterLines == <<Str("It ran."), Str("Page 7"), Str("It ran.")>>
FooterBlocks == <<TextRaw(0, FooterLines)>>

\* a page of headings with an inline number and title, in each language
HeadingLines ==
  [en |-> <<Str("part 12 Go"), Str("It ran."),
            Str("CHAPTER 3 ") \o <<ENDASH>> \o Str(" End"), Str("It ran.")>>,
   fr |-> <<Str("Chapitre 7 : Lettre"), Str("Il court."),
            Str("partie 12 Fin"), <<EMDASH>> \o Str(" Oui.")>>,
   ja |-> <<<<KANJIDAI, "7", KANJISHO>> \o Str(" Go"), <<LCORNER, "A", RCORNER>>,
            Str("12") \o <<KANJISHO>> \o Str(":Go"), <<LCORNER, "A", RCORNER>>>>]
HeadingBlocks(lang) == <<TextRaw(0, HeadingLines[lang])>>

\* a line that splitTitleFromMixedLine splits before IT
MixedLine == Str("The Diary IT WAS THE morning after")

\* the lines that matter to the heading lookaheads
HeadingVocabulary ==
  <<Str("Chapter 7:"), Str("Chapter 7: Go"), Str("Chapter 8"), <<>>, Str("Page 7"),
    Str("The Title"), Str("PART TWO"), Str("It ran."), <<LDQUO>> \o Str("Hi"),
    MixedLine, Str("PAGE 7")>>

\* the lines of pages that a sentence or a quotation straddles
PageVocabulary ==
  <<Str("It ran"), Str("far."), <<LDQUO>> \o Str("Hi"), <<>>, Str("Chapter 7: Go"),
    Str("PROLOGUE")>>

KnownLines ==
  SplitOn(JoinWith(Vocabulary, <<NL>>), NL) \o ExampleLines \o FooterLines
    \o HeadingLines.en \o HeadingLines.fr \o HeadingLines.ja
    \o HeadingVocabulary \o PageVocabulary

\* English input: the copy of storage.ts runs on every script, the copy of
\* converter.ts on the scripts one item shorter, both on the example pages;
\* the other languages run on their page of headings
InputBlocks(v, lang) ==
  IF lang = "en"
  THEN {BlocksOf(s, 0, <<>>) :
          s \in ScriptsUpTo(IF v = "storage" THEN MaxItems ELSE MaxItems - 1)}
         \cup {ExampleBlocks, FooterBlocks, HeadingBlocks("en")}
  ELSE {HeadingBlocks(lang)}

OptionsSet ==
  {[title |-> Str("T"), language |-> l, author |-> Undefined,
    series |-> Undefined, volume |-> Undefined] : l \in Languages}

\* two pages handed over in the wrong order: page 1 before page 0
UnsortedBlocks ==
  <<TextRaw(1, <<Str("It ran.")>>), TextRaw(0, <<Str("Chapter 7: Go")>>)>>

\* options with every optional field given
FullOptionsSet ==
  {[title |-> Str(" T&"), language |-> l, author |-> Str("A"),
    series |-> Str("S"), volume |-> Str("1")] : l \in Languages}

\* what nanoid() may draw from
Seeds == {1, 2}

\* with the full options: no raw block at all, the page with a footer or
\* the pages out of order, and any seed
Init ==
  /\ variant \in Variants
  /\ options \in OptionsSet \cup FullOptionsSet
  /\ seed \in IF options \in FullOptionsSet THEN Seeds ELSE {1}
  /\ firstResult = NoNovel
  /\ rawBlocks \in IF options \in FullOptionsSet
                   THEN {<<>>, FooterBlocks, UnsortedBlocks}
                   ELSE InputBlocks(variant, options.language)
  /\ pc = "block"
  /\ blockIndex = 1
  /\ lines = <<>>
  /\ i = 1
  /\ pendingText = <<>>
  /\ currentBlocks = <<>>
  /\ currentTitle = Str("Prologue")
  /\ currentNumber = NoNumber
  /\ chapterCount = 0
  /\ chapters = <<>>
  /\ result = NoNovel
  /\ tpLanguage = "en"
  /\ TpIdle
  /\ ProbeIdle
  /\ EncIdle
  /\ PdfIdle
  /\ MatchIdle
  /\ ClientIdle

\* --- the actions ---

raw == rawBlocks[blockIndex]
line == lines[i]
language == options.language

\* the branch the loop body takes on a line: the chain of if ... continue
lineBranch(v, lang, l) ==
  IF l = <<>> THEN "skip"
  ELSE IF v = "storage" /\ isPageLine(l) THEN "skip"
  ELSE IF detectChapter(lang, l).found THEN "chapter"
  ELSE IF (v = "storage" => ~looksLikeOpeningContent(l)) /\ detectSection(lang, l).found
  THEN "section"
  ELSE "body"

\* lineBranch over the lines the inputs hold, computed once
RECURSIVE BranchesOf(_, _, _)
BranchesOf(v, lang, ls) ==
  IF ls = <<>> THEN <<>>
  ELSE <<lineBranch(v, lang, ls[1])>> \o BranchesOf(v, lang, Tail(ls))

KnownBranches ==
  [v \in Variants |->
     [lang \in Languages |-> BranchesOf(v, lang, KnownLines)]]

Branch(v, lang, l) ==
  LET at == {n \in 1..Len(KnownLines) : KnownLines[n] = l}
  IN IF at # {} /\ lang \in Languages
     THEN KnownBranches[v][lang][CHOOSE n \in at : TRUE]
     ELSE lineBranch(v, lang, l)

\* raw.kind === "text": const lines = raw.text.split("\n").map((l) => l.trim())
BeginText ==
  /\ pc = "block" /\ blockIndex <= Len(rawBlocks) /\ raw.kind = "text"
  /\ lines' = TrimAll(SplitOn(raw.text, NL))
  /\ i' = 1
  /\ pc' = "lines"
  /\ UNCHANGED <<seed, firstResult, variant, options, rawBlocks, blockIndex, pendingText,
                 currentBlocks, currentTitle, currentNumber, chapterCount,
                 chapters, result>>
  /\ UNCHANGED <<tpLanguage, tpVars, probeVars, encVars, pdfVars, matchVars, clientVars>>

\* if (!line) continue; if (isPageLine(line)) continue;
SkipLine ==
  /\ pc = "lines" /\ i <= Len(lines)
  /\ Branch(variant, language, line) = "skip"
  /\ i' = i + 1
  /\ UNCHANGED <<seed, firstResult, variant, options, rawBlocks, pc, blockIndex, lines, pendingText,
                 currentBlocks, currentTitle, currentNumber, chapterCount,
                 chapters, result>>
  /\ UNCHANGED <<tpLanguage, tpVars, probeVars, encVars, pdfVars, matchVars, clientVars>>

\* the title, the number of lines consumed and the text handed back by a
\* chapter heading: consumeChapterHeading in storage.ts; in converter.ts the
\* title detectChapter captured, one line, nothing handed back
headingOf(v, lang, ls, at) ==
  IF v = "storage" THEN consumeChapterHeading(lang, ls, at, ls[at])
  ELSE [finalTitle |-> detectChapter(lang, ls[at]).title, consumed |-> 1,
        remainderToText |-> <<>>]

\* a faulty chapter branch: the number is not kept
chapterBranchNoNumber(pushed, chap, heading, l) ==
  [pushed EXCEPT
     !.currentTitle = IF heading.finalTitle # <<>> THEN heading.finalTitle ELSE l,
     !.pendingText = IF heading.remainderToText # <<>>
                     THEN AppendPending(@, heading.remainderToText)
                     ELSE @]

\* the locals after the chapter branch: pushed are the locals after
\* pushCurrentChapter(), chap is what detectChapter found on the line l,
\* heading what the heading consumed
chapterBranch(pushed, chap, heading, l) ==
  [pushed EXCEPT
     !.currentTitle = IF heading.finalTitle # <<>> THEN heading.finalTitle ELSE l,
     !.currentNumber = chap.number,
     !.pendingText = IF heading.remainderToText # <<>>
                     THEN AppendPending(@, heading.remainderToText)
                     ELSE @]

\* a faulty step over the heading: i += consumed
afterHeadingOneMore(at, consumed) == at + consumed + 1

\* i += Math.max(0, consumed - 1); continue
afterHeading(at, consumed) == at + (IF consumed - 1 > 0 THEN consumed - 1 ELSE 0) + 1

\* the chapter branch, given what the heading consumed
chapterStep(heading) ==
  /\ i' = afterHeading(i, heading.consumed)
  /\ SetAsm(chapterBranch(pushCurrentChapter(variant, language, asm),
                          detectChapter(language, line), heading, line))

\* if (chap) { ... continue; }
ChapterHeading ==
  /\ pc = "lines" /\ i <= Len(lines)
  /\ Branch(variant, language, line) = "chapter"
  /\ chapterStep(headingOf(variant, language, lines, i))
  /\ UNCHANGED <<seed, firstResult, variant, options, rawBlocks, pc, blockIndex, lines, result>>
  /\ UNCHANGED <<tpLanguage, tpVars, probeVars, encVars, pdfVars, matchVars, clientVars>>

\* a faulty section branch: the title is not set
sectionBranchUntitled(v, lang, as, fullTitle) ==
  [pushCurrentChapter(v, lang, as) EXCEPT !.currentNumber = NoNumber]

\* the locals after the section branch
sectionBranch(v, lang, as, fullTitle) ==
  [pushCurrentChapter(v, lang, as) EXCEPT
     !.currentTitle = IF v = "storage" THEN Trim(fullTitle) ELSE fullTitle,
     !.currentNumber = NoNumber]

\* the section branch, given the merged title and the last line it took
sectionStep(merged) ==
  /\ i' = merged.i + 1
  /\ SetAsm(sectionBranch(variant, language, asm, merged.fullTitle))

\* if (section) { ... continue; }
SectionHeading ==
  /\ pc = "lines" /\ i <= Len(lines)
  /\ Branch(variant, language, line) = "section"
  /\ sectionStep(mergeSectionTitle(variant, lines,
                                   detectSection(language, line).title, i, i + 1))
  /\ UNCHANGED <<seed, firstResult, variant, options, rawBlocks, pc, blockIndex, lines, result>>
  /\ UNCHANGED <<tpLanguage, tpVars, probeVars, encVars, pdfVars, matchVars, clientVars>>

\* pendingText += (pendingText ? "\n" : "") + line
BodyLine ==
  /\ pc = "lines" /\ i <= Len(lines)
  /\ Branch(variant, language, line) = "body"
  /\ pendingText' = AppendPending(pendingText, line)
  /\ i' = i + 1
  /\ UNCHANGED <<seed, firstResult, variant, options, rawBlocks, pc, blockIndex, lines,
                 currentBlocks, currentTitle, currentNumber, chapterCount,
                 chapters, result>>
  /\ UNCHANGED <<tpLanguage, tpVars, probeVars, encVars, pdfVars, matchVars, clientVars>>

\* a faulty end of a text block: the pending text is flushed
afterTextBlockFlushing(lang, as) == flushPendingText(lang, as)

\* the locals after the branch raw.kind === "text": the loop over the lines
\* is its last statement, nothing is flushed
afterTextBlock(lang, as) == as

\* the loop over the lines ends: on to the next raw block
EndText ==
  /\ pc = "lines" /\ i > Len(lines)
  /\ SetAsm(afterTextBlock(language, asm))
  /\ pc' = "block"
  /\ blockIndex' = blockIndex + 1
  /\ UNCHANGED <<seed, firstResult, variant, options, rawBlocks, lines, i, result>>
  /\ UNCHANGED <<tpLanguage, tpVars, probeVars, encVars, pdfVars, matchVars, clientVars>>

\* a faulty image branch: the image is pushed and the text stays pending
imageBranchNoFlush(lang, as, r) ==
  [as EXCEPT !.currentBlocks = Append(@, ImageBlock(r, idsDrawn(as) + 1))]

\* the locals after the image branch
imageBranch(lang, as, r) ==
  [flushPendingText(lang, as) EXCEPT
     !.currentBlocks = Append(@, ImageBlock(r, idsDrawn(flushPendingText(lang, as)) + 1))]

\* raw.kind === "image"
Image ==
  /\ pc = "block" /\ blockIndex <= Len(rawBlocks) /\ raw.kind = "image"
  /\ SetAsm(imageBranch(language, asm, raw))
  /\ blockIndex' = blockIndex + 1
  /\ UNCHANGED <<seed, firstResult, variant, options, rawBlocks, pc, lines, i, result>>
  /\ UNCHANGED <<tpLanguage, tpVars, probeVars, encVars, pdfVars, matchVars, clientVars>>

\* a faulty return: the optional fields of the metadata are left out
novelOfTitleOnly(opts, as) ==
  [metadata |-> [title |-> opts.title, language |-> opts.language,
                 author |-> Undefined, series |-> Undefined, volume |-> Undefined],
   toc |-> tocOf(as.chapters),
   chapters |-> as.chapters]

\* the Novel built from the final locals
novelOf(opts, as) ==
  [metadata |-> [title |-> opts.title, language |-> opts.language,
                 author |-> opts.author, series |-> opts.series,
                 volume |-> opts.volume],
   toc |-> tocOf(as.chapters),
   chapters |-> as.chapters]

\* the return, given the locals after the last pushCurrentChapter()
finishStep(final) ==
  /\ SetAsm(final)
  /\ result' = novelOf(options, final)

\* after the loop: pushCurrentChapter(); const toc = ...; return {...}
Finish ==
  /\ pc = "block" /\ blockIndex > Len(rawBlocks)
  /\ finishStep(pushCurrentChapter(variant, language, asm))
  /\ pc' = "done"
  /\ UNCHANGED <<seed, firstResult, variant, options, rawBlocks, blockIndex, lines, i>>
  /\ UNCHANGED <<tpLanguage, tpVars, probeVars, encVars, pdfVars, matchVars, clientVars>>

Next ==
  \/ BeginText
  \/ SkipLine
  \/ ChapterHeading
  \/ SectionHeading
  \/ BodyLine
  \/ EndText
  \/ Image
  \/ Finish

Spec == Init /\ [][Next]_vars

\* ------------------------------------------------------------------------
\* convertBlocksToNovel called twice on the same arguments: the second call
\* starts from fresh locals and nanoid() draws anew.
\* ------------------------------------------------------------------------

\* the arguments of the two calls: the scripts one item shorter than the
\* longest, and the fixed pages
TwiceBlocks(lang) ==
  IF lang = "en"
  THEN {BlocksOf(s, 0, <<>>) : s \in ScriptsUpTo(MaxItems - 1)}
         \cup {ExampleBlocks, FooterBlocks, HeadingBlocks("en")}
  ELSE {HeadingBlocks(lang)}

InitTwice ==
  /\ seed \in Seeds
  /\ firstResult = NoNovel
  /\ variant \in Variants
  /\ options \in OptionsSet \cup FullOptionsSet
  /\ rawBlocks \in IF options \in FullOptionsSet THEN {<<>>, FooterBlocks}
                   ELSE TwiceBlocks(options.language)
  /\ pc = "block"
  /\ blockIndex = 1
  /\ lines = <<>>
  /\ i = 1
  /\ pendingText = <<>>
  /\ currentBlocks = <<>>
  /\ currentTitle = Str("Prologue")
  /\ currentNumber = NoNumber
  /\ chapterCount = 0
  /\ chapters = <<>>
  /\ result = NoNovel
  /\ tpLanguage = "en"
  /\ TpIdle
  /\ ProbeIdle
  /\ EncIdle
  /\ PdfIdle
  /\ MatchIdle
  /\ ClientIdle

\* a call has returned at least once before the current one
calledBefore == DOMAIN firstResult # {}

\* the caller keeps the Novel returned and calls again with the same blocks
\* and options: the locals are declared and initialised anew
RunAgain ==
  /\ pc = "done" /\ ~calledBefore
  /\ firstResult' = result
  /\ seed' \in Seeds
  /\ pc' = "block"
  /\ blockIndex' = 1
  /\ lines' = <<>>
  /\ i' = 1
  /\ pendingText' = <<>>
  /\ currentBlocks' = <<>>
  /\ currentTitle' = Str("Prologue")
  /\ currentNumber' = NoNumber
  /\ chapterCount' = 0
  /\ chapters' = <<>>
  /\ result' = NoNovel
  /\ UNCHANGED <<variant, options, rawBlocks>>
  /\ UNCHANGED <<tpLanguage, tpVars, probeVars, encVars, pdfVars, matchVars, clientVars>>

NextTwice ==
  \/ Next
  \/ RunAgain

SpecTwice == InitTwice /\ [][NextTwice]_vars

\* ------------------------------------------------------------------------
\* TextProcessor.processContent: the state machine.  One action for the
\* normalisation and the split into paragraphs, one per paragraph entered
\* and left, one per line for each branch of the loop of
\* processParagraphSequential.
\* ------------------------------------------------------------------------

\* longest text, counted in characters
MaxTokens == 4

TpLanguages == {"en", "fr"}

\* the characters a text is made of
Tokens == {DQ, LDQUO, LSQUO, "A", ".", NL, LOZENGE}

\* texts of the documentation of the code and of the specification
QuotedABC == Str("\"A\" \"B\" \"C\"")
CurlyABC ==
  <<LDQUO, "A", RDQUO, SP, LDQUO, "B", RDQUO, SP, LDQUO, "C", RDQUO>>
SpacedBreak == <<LOZENGE, SP, LOZENGE, SP, LOZENGE, SP>> \o Str("After finals...")
HearingLine == Str("\" Hearing the news, he paused.")
\* texts with the characters of markup: narration, dialogue, and a scene
\* break between two lines
MarkupNarration == Str("A & <b>B</b>.")
MarkupDialogue == <<LDQUO>> \o Str("&lt; <A> &.") \o <<RDQUO>>
MarkupAroundBreak ==
  Str("<A") \o <<NL, LOZENGE, SP, SP, LOZENGE, LOZENGE, NL>> \o Str("&amp;>")
ExampleTexts ==
  {QuotedABC, CurlyABC, SpacedBreak, HearingLine,
   MarkupNarration, MarkupDialogue, MarkupAroundBreak}

Texts == UNION {[1..n -> Tokens] : n \in 0..MaxTokens} \cup ExampleTexts

InitTp ==
  /\ AsmIdle
  /\ ProbeIdle
  /\ EncIdle
  /\ PdfIdle
  /\ MatchIdle
  /\ ClientIdle
  /\ tpLanguage \in TpLanguages
  /\ text \in Texts
  /\ tpc = "content"
  /\ paragraphs = <<>>
  /\ paragraphIndex = 1
  /\ rawLines = <<>>
  /\ cleanLines = <<>>
  /\ lineIndex = 1
  /\ current = <<>>
  /\ inDialogue = FALSE
  /\ blocks = <<>>

\* the accumulator of processParagraphSequential as one record, and back
acc == [current |-> current, inDialogue |-> inDialogue, blocks |-> blocks]

SetAcc(st) ==
  /\ current' = st.current
  /\ inDialogue' = st.inDialogue
  /\ blocks' = st.blocks

\* the branch the loop body takes on a cleaned line
segmentBranch(lang, dialogue, l) ==
  IF isSceneBreak(l) THEN "scene"
  ELSE IF isDialogueStart(lang, l) THEN "start"
  ELSE IF dialogue THEN "continuation"
  ELSE "narration"

\* processContent up to the loop over the paragraphs
ProcessContent ==
  /\ tpc = "content"
  /\ paragraphs' = ParagraphsOf(text)
  /\ paragraphIndex' = 1
  /\ blocks' = <<>>
  /\ tpc' = "paragraphs"
  /\ UNCHANGED <<text, rawLines, cleanLines, lineIndex, current, inDialogue>>
  /\ UNCHANGED <<asmVars, tpLanguage, probeVars, encVars, pdfVars, matchVars, clientVars>>

\* processParagraphSequential up to its loop; if (!rawLines.length) return
BeginParagraph ==
  /\ tpc = "paragraphs" /\ paragraphIndex <= Len(paragraphs)
  /\ LET valid == ValidLines(SplitOn(paragraphs[paragraphIndex], NL))
     IN /\ rawLines' = valid
        /\ cleanLines' = CleanAll(tpLanguage, valid)
        /\ IF valid = <<>>
           THEN /\ paragraphIndex' = paragraphIndex + 1
                /\ UNCHANGED <<tpc, lineIndex, current, inDialogue>>
           ELSE /\ current' = <<>>
                /\ inDialogue' = FALSE
                /\ lineIndex' = 1
                /\ tpc' = "lines"
                /\ UNCHANGED paragraphIndex
  /\ UNCHANGED <<text, paragraphs, blocks>>
  /\ UNCHANGED <<asmVars, tpLanguage, probeVars, encVars, pdfVars, matchVars, clientVars>>

\* the loop over the lines is at a line that takes the branch named
AtLine(branch) ==
  /\ tpc = "lines" /\ lineIndex <= Len(cleanLines)
  /\ segmentBranch(tpLanguage, inDialogue, cleanLines[lineIndex]) = branch

\* one iteration of the loop over the lines
LineStep ==
  /\ SetAcc(SegmentLine(tpLanguage, acc, cleanLines[lineIndex]))
  /\ lineIndex' = lineIndex + 1
  /\ UNCHANGED <<text, tpc, paragraphs, paragraphIndex, rawLines, cleanLines>>
  /\ UNCHANGED <<asmVars, tpLanguage, probeVars, encVars, pdfVars, matchVars, clientVars>>

\* if (this.isSceneBreak(line)) { ... continue; }
SceneBreakLine ==
  /\ AtLine("scene")
  /\ LineStep

\* if (dialogueStart) { ... }
DialogueStartLine ==
  /\ AtLine("start")
  /\ LineStep

\* else if (inDialogue) { ... }
DialogueContinuationLine ==
  /\ AtLine("continuation")
  /\ LineStep

\* else { ... }
NarrationLine ==
  /\ AtLine("narration")
  /\ LineStep

\* the final flush of processParagraphSequential
EndParagraph ==
  /\ tpc = "lines" /\ lineIndex > Len(cleanLines)
  /\ blocks' = SegmentEnd(acc)
  /\ paragraphIndex' = paragraphIndex + 1
  /\ tpc' = "paragraphs"
  /\ UNCHANGED <<text, paragraphs, rawLines, cleanLines, lineIndex, current,
                 inDialogue>>
  /\ UNCHANGED <<asmVars, tpLanguage, probeVars, encVars, pdfVars, matchVars, clientVars>>

\* return blocks
ReturnContent ==
  /\ tpc = "paragraphs" /\ paragraphIndex > Len(paragraphs)
  /\ tpc' = "done"
  /\ UNCHANGED <<text, paragraphs, paragraphIndex, rawLines, cleanLines,
                 lineIndex, current, inDialogue, blocks>>
  /\ UNCHANGED <<asmVars, tpLanguage, probeVars, encVars, pdfVars, matchVars, clientVars>>

NextTp ==
  \/ ProcessContent
  \/ BeginParagraph
  \/ SceneBreakLine
  \/ DialogueStartLine
  \/ DialogueContinuationLine
  \/ NarrationLine
  \/ EndParagraph
  \/ ReturnContent

SpecTp == InitTp /\ [][NextTp]_vars

\* ------------------------------------------------------------------------
\* A call of TextProcessor.isDialogueStart on a line
\* ------------------------------------------------------------------------

\* longest line, counted in characters
MaxProbe == 3

ProbeLanguages == {"en", "fr", "ja"}

ProbeChars == {DQ, LDQUO, LSQUO, LAQUO, LCORNER, EMDASH, "-", "A", SP}

ProbeLines == UNION {[1..n -> ProbeChars] : n \in 0..MaxProbe}

InitProbe ==
  /\ AsmIdle
  /\ TpIdle
  /\ EncIdle
  /\ PdfIdle
  /\ MatchIdle
  /\ ClientIdle
  /\ tpLanguage \in ProbeLanguages
  /\ probeLine \in ProbeLines
  /\ probed = FALSE
  /\ dialogueStart = FALSE

\* const dialogueStart = this.isDialogueStart(line)
CallIsDialogueStart ==
  /\ ~probed
  /\ dialogueStart' = isDialogueStart(tpLanguage, probeLine)
  /\ probed' = TRUE
  /\ UNCHANGED <<asmVars, tpLanguage, tpVars, probeLine, encVars, pdfVars, matchVars, clientVars>>

NextProbe == CallIsDialogueStart

SpecProbe == InitProbe /\ [][NextProbe]_vars


\* ------------------------------------------------------------------------
\* pdf.ts: encodeRGBAtoPNG.  A byte is a number in 0..255; a buffer is a
\* sequence of bytes, its index i in the code being position i + 1 here.  A
\* 32-bit word is the sequence of its four bytes, the most significant first.
\* ------------------------------------------------------------------------

\* reading past the end of a typed array gives undefined
NoElement == 0 - 1

\* data[k]
elementAt(buf, k) == IF k >= 0 /\ k < Len(buf) THEN buf[k + 1] ELSE NoElement

\* what a Buffer keeps of a value stored in it: undefined becomes 0
toUint8(v) == IF v = NoElement THEN 0 ELSE v % 256

\* Buffer.alloc(size): zero-filled
alloc(size) == [k \in 1..size |-> 0]

\* Buffer.alloc throws on a negative size
allocThrows(size) == size < 0

\* buf[k] = v, k counted from 0
store(buf, k, v) == [buf EXCEPT ![k + 1] = toUint8(v)]

\* const totalPixels = width * height
totalPixels(im) == im.width * im.height

\* components: Math.max(1, Math.floor(data.length / totalPixels)), or 4
components(im) ==
  IF totalPixels(im) > 0
  THEN (IF Len(im.data) \div totalPixels(im) > 1
        THEN Len(im.data) \div totalPixels(im) ELSE 1)
  ELSE 4

strideRGBA(im) == im.width * 4

\* the size of raw
rawSize(im) == (strideRGBA(im) + 1) * im.height

\* a faulty mapping: the pixel is read as RGBA whatever the component count
rgbaAlways(count, buf, srcIndex) ==
  <<elementAt(buf, srcIndex), elementAt(buf, srcIndex + 1),
    elementAt(buf, srcIndex + 2), elementAt(buf, srcIndex + 3)>>

\* r, g, b, a of the pixel whose components begin at srcIndex
rgba(count, buf, srcIndex) ==
  IF count = 4
  THEN <<elementAt(buf, srcIndex), elementAt(buf, srcIndex + 1),
         elementAt(buf, srcIndex + 2), elementAt(buf, srcIndex + 3)>>
  ELSE IF count = 3
  THEN <<elementAt(buf, srcIndex), elementAt(buf, srcIndex + 1),
         elementAt(buf, srcIndex + 2), 255>>
  ELSE IF count = 1
  THEN <<elementAt(buf, srcIndex), elementAt(buf, srcIndex),
         elementAt(buf, srcIndex), 255>>
  ELSE <<toUint8(elementAt(buf, srcIndex)), toUint8(elementAt(buf, srcIndex)),
         toUint8(elementAt(buf, srcIndex)), 255>>

\* raw[destIndex] = r; ... raw[destIndex + 3] = a
storePixel(buf, destIndex, px) ==
  store(store(store(store(buf, destIndex, px[1]), destIndex + 1, px[2]),
              destIndex + 2, px[3]), destIndex + 3, px[4])

\* --- 32-bit words and the CRC ---

RECURSIVE BitXor(_, _)
BitXor(a, b) ==
  IF a = 0 THEN b
  ELSE IF b = 0 THEN a
  ELSE (((a % 2) + (b % 2)) % 2) + 2 * BitXor(a \div 2, b \div 2)

WordXor(u, w) ==
  <<BitXor(u[1], w[1]), BitXor(u[2], w[2]), BitXor(u[3], w[3]), BitXor(u[4], w[4])>>

\* w >>> 1
WordShift1(w) ==
  <<w[1] \div 2, (w[2] \div 2) + (128 * (w[1] % 2)),
    (w[3] \div 2) + (128 * (w[2] % 2)), (w[4] \div 2) + (128 * (w[3] % 2))>>

\* w >>> 8
WordShift8(w) == <<0, w[1], w[2], w[3]>>

\* ~w
WordNot(w) == <<255 - w[1], 255 - w[2], 255 - w[3], 255 - w[4]>>

\* 0xedb88320
Polynomial == <<237, 184, 131, 32>>

\* c = c & 1 ? 0xedb88320 ^ (c >>> 1) : c >>> 1, k times
RECURSIVE crcRounds(_, _)
crcRounds(c, k) ==
  IF k = 0 THEN c
  ELSE IF c[4] % 2 = 1 THEN crcRounds(WordXor(Polynomial, WordShift1(c)), k - 1)
  ELSE crcRounds(WordShift1(c), k - 1)

table == [n \in 0..255 |-> crcRounds(<<0, 0, 0, n>>, 8)]

\* crc = (crc >>> 8) ^ table[(crc ^ buf[i]) & 0xff]
crcStep(crc, byte) == WordXor(WordShift8(crc), table[BitXor(crc[4], byte)])

\* let crc = ~0; the loop over buf, here over the positions lo..hi, the
\* first half and then the second; return ~crc >>> 0
crc32(buf) ==
  LET loop[crc \in Seq(Int), lo \in Int, hi \in Int] ==
        IF lo > hi THEN crc
        ELSE IF lo = hi THEN crcStep(crc, buf[lo])
        ELSE loop[loop[crc, lo, (lo + hi) \div 2], ((lo + hi) \div 2) + 1, hi]
  IN WordNot(loop[<<255, 255, 255, 255>>, 1, Len(buf)])

\* writeUInt32BE throws on a value outside 0 .. 2^32 - 1; the numbers of the
\* model stay below 2^31
writeUInt32BEThrows(v) == v < 0

\* the four bytes writeUInt32BE(v, 0) writes
UInt32BE(v) ==
  <<(v \div 16777216) % 256, (v \div 65536) % 256, (v \div 256) % 256, v % 256>>

\* Buffer.from(type, "ascii") of the chunk types the encoder writes
ChunkType ==
  [IHDR |-> <<73, 72, 68, 82>>, IDAT |-> <<73, 68, 65, 84>>,
   IEND |-> <<73, 69, 78, 68>>]

chunk(type, buf) ==
  UInt32BE(Len(buf)) \o ChunkType[type] \o buf \o crc32(ChunkType[type] \o buf)

\* Buffer.from("89504E470D0A1A0A", "hex")
pngHeader == <<137, 80, 78, 71, 13, 10, 26, 10>>

\* a faulty header: the height is written first
ihdrHeightFirst(im) == UInt32BE(im.height) \o UInt32BE(im.width) \o <<8, 6, 0, 0, 0>>

\* ihdr: width, height, bit depth 8, colour type 6 (RGBA), 0, 0, 0
ihdr(im) == UInt32BE(im.width) \o UInt32BE(im.height) \o <<8, 6, 0, 0, 0>>

\* --- zlib.deflateSync ---
\* zlib is a library: of the zlib streams that hold the data it may return
\* any, and every inflater reads them alike.  The stream taken here is the
\* one of stored blocks: the header 78 01, one final block with its length
\* and the length's complement, least significant byte first, the data, and
\* the Adler-32 checksum of the data.

\* the two sums of Adler-32 after one more byte
adlerStep(ab, byte) ==
  <<(ab[1] + byte) % 65521, (ab[2] + ((ab[1] + byte) % 65521)) % 65521>>

adlerBytes(ab) == <<ab[2] \div 256, ab[2] % 256, ab[1] \div 256, ab[1] % 256>>

adler32(buf) ==
  LET loop[ab \in Seq(Int), lo \in Int, hi \in Int] ==
        IF lo > hi THEN ab
        ELSE IF lo = hi THEN adlerStep(ab, buf[lo])
        ELSE loop[loop[ab, lo, (lo + hi) \div 2], ((lo + hi) \div 2) + 1, hi]
  IN adlerBytes(loop[<<1, 0>>, 1, Len(buf)])

deflateSync(buf) ==
  <<120, 1, 1, Len(buf) % 256, Len(buf) \div 256,
    255 - (Len(buf) % 256), 255 - (Len(buf) \div 256)>> \o buf \o adler32(buf)

\* --- png.toString("base64") ---

Base64Alphabet ==
  Str("ABCDEFGHIJKLMNOPQRSTUVWXYZabcdefghijklmnopqrstuvwxyz0123456789+/")

Base64Char(n) == Base64Alphabet[n + 1]

RECURSIVE toBase64From(_, _)
toBase64From(buf, k) ==
  IF k > Len(buf) THEN <<>>
  ELSE IF k = Len(buf)
  THEN <<Base64Char(buf[k] \div 4), Base64Char((buf[k] % 4) * 16), "=", "=">>
  ELSE IF k + 1 = Len(buf)
  THEN <<Base64Char(buf[k] \div 4),
         Base64Char(((buf[k] % 4) * 16) + (buf[k + 1] \div 16)),
         Base64Char((buf[k + 1] % 16) * 4), "=">>
  ELSE <<Base64Char(buf[k] \div 4),
         Base64Char(((buf[k] % 4) * 16) + (buf[k + 1] \div 16)),
         Base64Char(((buf[k + 1] % 16) * 4) + (buf[k + 2] \div 64)),
         Base64Char(buf[k + 2] % 64)>> \o toBase64From(buf, k + 3)

toBase64(buf) == toBase64From(buf, 1)

\* a faulty PNG: the scanlines come before the header chunk
pngOfIdatFirst(im, scanlines) ==
  pngHeader \o chunk("IDAT", deflateSync(scanlines)) \o chunk("IHDR", ihdr(im))
    \o chunk("IEND", <<>>)

\* the PNG: header, IHDR, IDAT, IEND
pngOf(im, scanlines) ==
  pngHeader \o chunk("IHDR", ihdr(im)) \o chunk("IDAT", deflateSync(scanlines))
    \o chunk("IEND", <<>>)

\* whether the call throws: at Buffer.alloc, or at ihdr.writeUInt32BE
encodeThrows(im) ==
  \/ allocThrows(rawSize(im))
  \/ writeUInt32BEThrows(im.width)
  \/ writeUInt32BEThrows(im.height)

\* --- the state machine: one call of encodeRGBAtoPNG ---

\* longest side of an image
MaxSide == 2

Sides == (0 - 1)..MaxSide

\* the bytes of a buffer of the given length: b, b + a, b + 2a, ...
Ramp(len, a, b) == [k \in 1..len |-> (b + (a * (k - 1))) % 256]

\* buffers up to one byte longer than four components for the largest image
Buffers ==
  {Ramp(len, ab[1], ab[2]) :
     len \in 0..((4 * MaxSide * MaxSide) + 1), ab \in {<<0, 0>>, <<37, 200>>, <<1, 254>>}}

InitEnc ==
  /\ AsmIdle
  /\ tpLanguage = "en"
  /\ TpIdle
  /\ ProbeIdle
  /\ PdfIdle
  /\ MatchIdle
  /\ ClientIdle
  /\ img \in [width : Sides, height : Sides, data : Buffers]
  /\ encPc = "alloc"
  /\ rawBuffer = <<>>
  /\ y = 0
  /\ x = 0
  /\ pngBase64 = <<>>

notEnc == <<asmVars, tpLanguage, tpVars, probeVars, pdfVars, matchVars, clientVars>>

\* const raw = Buffer.alloc((strideRGBA + 1) * height) throws
AllocThrows ==
  /\ encPc = "alloc" /\ allocThrows(rawSize(img))
  /\ encPc' = "threw"
  /\ UNCHANGED <<img, rawBuffer, y, x, pngBase64>>
  /\ UNCHANGED notEnc

\* const raw = Buffer.alloc((strideRGBA + 1) * height); let y = 0
Alloc ==
  /\ encPc = "alloc" /\ ~allocThrows(rawSize(img))
  /\ rawBuffer' = alloc(rawSize(img))
  /\ y' = 0
  /\ encPc' = "row"
  /\ UNCHANGED <<img, x, pngBase64>>
  /\ UNCHANGED notEnc

rowStart == (strideRGBA(img) + 1) * y

\* y < height: raw[rowStart] = 0; let x = 0
RowStart ==
  /\ encPc = "row" /\ y < img.height
  /\ rawBuffer' = store(rawBuffer, rowStart, 0)
  /\ x' = 0
  /\ encPc' = "pixel"
  /\ UNCHANGED <<img, y, pngBase64>>
  /\ UNCHANGED notEnc

pixelIndex == (y * img.width) + x
srcIndex == pixelIndex * components(img)
destIndex == rowStart + 1 + (x * 4)

\* one turn of the loop over x
Pixel ==
  /\ encPc = "pixel" /\ x < img.width
  /\ rawBuffer' = storePixel(rawBuffer, destIndex,
                             rgba(components(img), img.data, srcIndex))
  /\ x' = x + 1
  /\ UNCHANGED <<img, encPc, y, pngBase64>>
  /\ UNCHANGED notEnc

\* components === 4
PixelRGBA == components(img) = 4 /\ Pixel
\* components === 3
PixelRGB == components(img) = 3 /\ Pixel
\* components === 1
PixelGray == components(img) = 1 /\ Pixel
\* else
PixelOther == components(img) \notin {1, 3, 4} /\ Pixel

\* x reaches width: y++
RowEnd ==
  /\ encPc = "pixel" /\ x >= img.width
  /\ y' = y + 1
  /\ encPc' = "row"
  /\ UNCHANGED <<img, rawBuffer, x, pngBase64>>
  /\ UNCHANGED notEnc

\* y reaches height; ihdr.writeUInt32BE(width, 0) or (height, 4) throws
IhdrThrows ==
  /\ encPc = "row" /\ y >= img.height
  /\ writeUInt32BEThrows(img.width) \/ writeUInt32BEThrows(img.height)
  /\ encPc' = "threw"
  /\ UNCHANGED <<img, rawBuffer, y, x, pngBase64>>
  /\ UNCHANGED notEnc

\* y reaches height; the chunks are built; return png.toString("base64")
Return ==
  /\ encPc = "row" /\ y >= img.height
  /\ ~writeUInt32BEThrows(img.width) /\ ~writeUInt32BEThrows(img.height)
  /\ pngBase64' = toBase64(pngOf(img, rawBuffer))
  /\ encPc' = "returned"
  /\ UNCHANGED <<img, rawBuffer, y, x>>
  /\ UNCHANGED notEnc

NextEnc ==
  \/ AllocThrows
  \/ Alloc
  \/ RowStart
  \/ PixelRGBA
  \/ PixelRGB
  \/ PixelGray
  \/ PixelOther
  \/ RowEnd
  \/ IhdrThrows
  \/ Return

SpecEnc == InitEnc /\ [][NextEnc]_vars


\* ------------------------------------------------------------------------
\* pdf.ts: parsePdfToBlocks.  What unpdf reads from the file is a sequence
\* of pages; a page has its text, the images extractImages returns for it,
\* and whether extractImages throws instead.  An image is width, height and
\* data; the pixel data are cut short here, the encoder's failure depending
\* on the dimensions alone (encodeThrows), and the string the encoder
\* returns for an image is kept as a token naming the image.
\* ------------------------------------------------------------------------

MAX_IMAGES_TOTAL == 40
MAX_IMAGES_PER_PAGE == 3
MIN_IMAGE_AREA == 200000

\* the base64 string encodeRGBAtoPNG returns for an image it can encode
encodeRGBAtoPNG(im) == <<[pngOfImage |-> im]>>

\* blocks.push({kind: "text", pageIndex, order: 1, text: pageText})
PageTextBlock(page, txt) ==
  [kind |-> "text", pageIndex |-> page, order |-> 1, text |-> txt,
   dataUrl |-> <<>>, alt |-> <<>>]

\* blocks.push({kind: "image", pageIndex, order: 0, dataUrl, alt})
PageImageBlock(page, im) ==
  [kind |-> "image", pageIndex |-> page, order |-> 0, text |-> <<>>,
   dataUrl |-> Str("data:image/png;base64,") \o encodeRGBAtoPNG(im),
   alt |-> Str("Image p.") \o NumberToDigits(page + 1)]

\* the comparator of blocks.sort: negative or zero
notAfter(a, b) ==
  IF a.pageIndex # b.pageIndex THEN a.pageIndex < b.pageIndex
  ELSE a.order <= b.order

\* a faulty sort: by pageIndex alone
sortBlocksByPage(bs) ==
  LET n == Len(bs)
      rank == [at \in 1..n |->
                Cardinality({other \in (1..n) \ {at} :
                   IF other < at THEN bs[other].pageIndex <= bs[at].pageIndex
                   ELSE bs[other].pageIndex < bs[at].pageIndex}) + 1]
  IN  [place \in 1..n |-> bs[CHOOSE at \in 1..n : rank[at] = place]]

\* blocks.sort(...): stable, so the block at j stands before the block at i when
\* the comparator does not put it after (j earlier) or puts it strictly before
sortBlocks(bs) ==
  LET n == Len(bs)
      rank == [at \in 1..n |->
                Cardinality({other \in (1..n) \ {at} :
                   IF other < at THEN notAfter(bs[other], bs[at])
                   ELSE ~notAfter(bs[at], bs[other])}) + 1]
  IN  [place \in 1..n |-> bs[CHOOSE at \in 1..n : rank[at] = place]]

\* a faulty catch: the image that failed is counted
countSkipped(counts) ==
  [imagesOnPage |-> counts.imagesOnPage + 1, totalImages |-> counts.totalImages + 1]

\* catch { continue; }: the counters after an image the encoder failed on
skipImage(counts) == counts

\* --- the state machine: one call of parsePdfToBlocks ---

\* most images on a page
MaxImages == 4

\* an image large enough, one too small, one the encoder fails on
LargeImage == [width |-> 500, height |-> 400, data |-> <<7>>]
SmallImage == [width |-> 400, height |-> 400, data |-> <<7>>]
BadImage == [width |-> 0 - 500, height |-> 0 - 400, data |-> <<7>>]
\* another image large enough
WideImage == [width |-> 1000, height |-> 400, data |-> <<7>>]

ImageKinds == {LargeImage, SmallImage, BadImage, WideImage}

RECURSIVE ImageLists(_)
ImageLists(n) ==
  IF n = 0 THEN {<<>>}
  ELSE ImageLists(n - 1)
         \cup {Append(l, k) : l \in {s \in ImageLists(n - 1) : Len(s) = n - 1},
                              k \in ImageKinds}

PdfPage(ims, fails) == [text |-> Str("It ran."), images |-> ims, fails |-> fails]

\* a second page: without images, with one, or extractImages throws
SecondPages ==
  {PdfPage(<<>>, FALSE), PdfPage(<<LargeImage>>, FALSE), PdfPage(<<LargeImage>>, TRUE)}

\* fifteen pages of four images, the first of which the encoder fails on: the
\* fourteenth page reaches MAX_IMAGES_TOTAL
LongPdf == [k \in 1..15 |-> PdfPage(<<BadImage, LargeImage, LargeImage, LargeImage>>, FALSE)]

Pdfs ==
  {<<>>, LongPdf}
    \cup {<<PdfPage(l, FALSE)>> : l \in ImageLists(MaxImages)}
    \cup {<<PdfPage(l, FALSE), p>> : l \in ImageLists(MaxImages), p \in SecondPages}

InitPdf ==
  /\ AsmIdle
  /\ tpLanguage = "en"
  /\ TpIdle
  /\ ProbeIdle
  /\ EncIdle
  /\ MatchIdle
  /\ ClientIdle
  /\ pdf \in Pdfs
  /\ pdfPc = "page"
  /\ pageIndex = 0
  /\ imageIndex = 1
  /\ imagesOnPage = 0
  /\ totalImages = 0
  /\ pdfBlocks = <<>>

notPdf == <<asmVars, tpLanguage, tpVars, probeVars, encVars, matchVars, clientVars>>

totalPages == Len(pdf)
page == pdf[pageIndex + 1]
image == page.images[imageIndex]

\* the text block; totalImages >= MAX_IMAGES_TOTAL: continue
PageWithoutImages ==
  /\ pdfPc = "page" /\ pageIndex < totalPages
  /\ pdfBlocks' = Append(pdfBlocks, PageTextBlock(pageIndex, page.text))
  /\ totalImages >= MAX_IMAGES_TOTAL
  /\ pageIndex' = pageIndex + 1
  /\ UNCHANGED <<pdf, pdfPc, imageIndex, imagesOnPage, totalImages>>
  /\ UNCHANGED notPdf

\* the text block; extractImages throws: the error is logged and ignored
PageExtractFails ==
  /\ pdfPc = "page" /\ pageIndex < totalPages
  /\ pdfBlocks' = Append(pdfBlocks, PageTextBlock(pageIndex, page.text))
  /\ totalImages < MAX_IMAGES_TOTAL
  /\ page.fails
  /\ imagesOnPage' = 0
  /\ pageIndex' = pageIndex + 1
  /\ UNCHANGED <<pdf, pdfPc, imageIndex, totalImages>>
  /\ UNCHANGED notPdf

\* the text block; let imagesOnPage = 0; const images = await extractImages
PageImages ==
  /\ pdfPc = "page" /\ pageIndex < totalPages
  /\ pdfBlocks' = Append(pdfBlocks, PageTextBlock(pageIndex, page.text))
  /\ totalImages < MAX_IMAGES_TOTAL
  /\ ~page.fails
  /\ imagesOnPage' = 0
  /\ imageIndex' = 1
  /\ pdfPc' = "images"
  /\ UNCHANGED <<pdf, pageIndex, totalImages>>
  /\ UNCHANGED notPdf

AtImageOfPage == pdfPc = "images" /\ imageIndex <= Len(page.images)

\* a faulty test of the caps: a cap is reached only once it is exceeded
capExceeded ==
  imagesOnPage > MAX_IMAGES_PER_PAGE \/ totalImages > MAX_IMAGES_TOTAL

capReached ==
  imagesOnPage >= MAX_IMAGES_PER_PAGE \/ totalImages >= MAX_IMAGES_TOTAL

\* if (imagesOnPage >= MAX_IMAGES_PER_PAGE) break;
\* if (totalImages >= MAX_IMAGES_TOTAL) break;
CapBreak ==
  /\ AtImageOfPage /\ capReached
  /\ pageIndex' = pageIndex + 1
  /\ pdfPc' = "page"
  /\ UNCHANGED <<pdf, imageIndex, imagesOnPage, totalImages, pdfBlocks>>
  /\ UNCHANGED notPdf

area == image.width * image.height

\* if (area < MIN_IMAGE_AREA) continue
SmallImageSkipped ==
  /\ AtImageOfPage /\ ~capReached
  /\ area < MIN_IMAGE_AREA
  /\ imageIndex' = imageIndex + 1
  /\ UNCHANGED <<pdf, pdfPc, pageIndex, imagesOnPage, totalImages, pdfBlocks>>
  /\ UNCHANGED notPdf

counters == [imagesOnPage |-> imagesOnPage, totalImages |-> totalImages]

\* encodeRGBAtoPNG throws: catch { continue; }
EncodeFails ==
  /\ AtImageOfPage /\ ~capReached
  /\ area >= MIN_IMAGE_AREA
  /\ encodeThrows(image)
  /\ imagesOnPage' = skipImage(counters).imagesOnPage
  /\ totalImages' = skipImage(counters).totalImages
  /\ imageIndex' = imageIndex + 1
  /\ UNCHANGED <<pdf, pdfPc, pageIndex, pdfBlocks>>
  /\ UNCHANGED notPdf

\* the image block; imagesOnPage++; totalImages++
ImagePushed ==
  /\ AtImageOfPage /\ ~capReached
  /\ area >= MIN_IMAGE_AREA
  /\ ~encodeThrows(image)
  /\ pdfBlocks' = Append(pdfBlocks, PageImageBlock(pageIndex, image))
  /\ imagesOnPage' = imagesOnPage + 1
  /\ totalImages' = totalImages + 1
  /\ imageIndex' = imageIndex + 1
  /\ UNCHANGED <<pdf, pdfPc, pageIndex>>
  /\ UNCHANGED notPdf

\* the images of the page are exhausted
ImagesEnd ==
  /\ pdfPc = "images" /\ imageIndex > Len(page.images)
  /\ pageIndex' = pageIndex + 1
  /\ pdfPc' = "page"
  /\ UNCHANGED <<pdf, imageIndex, imagesOnPage, totalImages, pdfBlocks>>
  /\ UNCHANGED notPdf

\* after the last page: blocks.sort(...); return blocks
ReturnBlocks ==
  /\ pdfPc = "page" /\ pageIndex >= totalPages
  /\ pdfBlocks' = sortBlocks(pdfBlocks)
  /\ pdfPc' = "returned"
  /\ UNCHANGED <<pdf, pageIndex, imageIndex, imagesOnPage, totalImages>>
  /\ UNCHANGED notPdf

NextPdf ==
  \/ PageWithoutImages
  \/ PageExtractFails
  \/ PageImages
  \/ CapBreak
  \/ SmallImageSkipped
  \/ EncodeFails
  \/ ImagePushed
  \/ ImagesEnd
  \/ ReturnBlocks

SpecPdf == InitPdf /\ [][NextPdf]_vars


\* ------------------------------------------------------------------------
\* NovelPatternMatcher.detectChapter: one call, on a line put together from
\* a few pieces.
\* ------------------------------------------------------------------------

\* most pieces in a line
MaxPieces == 3

\* "de" is not a key of PATTERNS
MatcherLanguages == {"en", "fr", "ja", "de"}

Pieces ==
  {Str("Chapter"), Str("chapitre"), Str("PART"), Str("partie"), <<KANJIDAI>>,
   <<KANJISHO>>, Str("7"), Str("12"), Str(" "), Str(":"), Str("Go"), <<TAB>>}

RECURSIVE LinesOfPieces(_)
LinesOfPieces(n) ==
  IF n = 0 THEN {<<>>}
  ELSE LinesOfPieces(n - 1)
         \cup {l \o q : l \in LinesOfPieces(n - 1), q \in Pieces}

InitMatch ==
  /\ AsmIdle
  /\ tpLanguage = "en"
  /\ TpIdle
  /\ ProbeIdle
  /\ EncIdle
  /\ PdfIdle
  /\ ClientIdle
  /\ matcherLanguage \in MatcherLanguages
  /\ chapterLine \in LinesOfPieces(MaxPieces)
  /\ matched = FALSE
  /\ chapter = NoChapter
  /\ SectionIdle

notMatch == <<asmVars, tpLanguage, tpVars, probeVars, encVars, pdfVars, sectionVars, clientVars>>

\* if (!trimmed) return null
ReturnNullOnBlank ==
  /\ ~matched /\ Trim(chapterLine) = <<>>
  /\ chapter' = detectChapter(matcherLanguage, chapterLine)
  /\ matched' = TRUE
  /\ UNCHANGED <<matcherLanguage, chapterLine>>
  /\ UNCHANGED notMatch

\* the loop returns at a pattern that matches
ReturnChapter ==
  /\ ~matched /\ Trim(chapterLine) # <<>>
  /\ detectChapter(matcherLanguage, chapterLine).found
  /\ chapter' = detectChapter(matcherLanguage, chapterLine)
  /\ matched' = TRUE
  /\ UNCHANGED <<matcherLanguage, chapterLine>>
  /\ UNCHANGED notMatch

\* the loop ends: return null
ReturnNullAfterLoop ==
  /\ ~matched /\ Trim(chapterLine) # <<>>
  /\ ~detectChapter(matcherLanguage, chapterLine).found
  /\ chapter' = detectChapter(matcherLanguage, chapterLine)
  /\ matched' = TRUE
  /\ UNCHANGED <<matcherLanguage, chapterLine>>
  /\ UNCHANGED notMatch

NextMatch ==
  \/ ReturnNullOnBlank
  \/ ReturnChapter
  \/ ReturnNullAfterLoop

SpecMatch == InitMatch /\ [][NextMatch]_vars


\* ------------------------------------------------------------------------
\* NovelPatternMatcher.detectSection: one call, on a line put together from
\* a few words; and convertBlocksToNovel on a page of such lines, where the
\* section branch calls it.
\* ------------------------------------------------------------------------

\* most words in a line
MaxWords == 3

SectionWords ==
  {Str("Prologue"), Str("EPILOGUE"), Str("the prologue"), Str("afterword"),
   <<CAPEACUTE>> \o Str("pilogue"), <<"ka_pu", "ka_ro", "ka_ro", "ka_long", "ka_gu">>,
   Str(" "), Str(":"), Str(","), <<LDQUO>>, Str("DEAR"), Str(" RUDEUS"),
   Str(" 7."), Str("It ran")}

RECURSIVE LinesOfWords(_)
LinesOfWords(n) ==
  IF n = 0 THEN {<<>>}
  ELSE LinesOfWords(n - 1)
         \cup {l \o q : l \in LinesOfWords(n - 1), q \in SectionWords}

\* a page whose lines open a letter, between two headings, and an image
OpeningLines ==
  <<Str("PROLOGUE"), <<LDQUO>> \o Str("DEAR RUDEUS"), <<>>,
    Str("DEAR RUDEUS GREYRAT,"), <<LAQUO>> \o Str("EPILOGUE"), Str("Prologue,"),
    Str("Chapter 7"), Str("It ran.")>>
OpeningBlocks == <<TextRaw(0, OpeningLines), ImageRaw(1)>>

\* either detectSection is called, or convertBlocksToNovel is, on the page
InitSection ==
  /\ tpLanguage = "en"
  /\ TpIdle
  /\ ProbeIdle
  /\ EncIdle
  /\ PdfIdle
  /\ ClientIdle
  /\ chapterLine = <<>>
  /\ matched = FALSE
  /\ chapter = NoChapter
  /\ section = NoSection
  /\ \/ /\ AsmIdle
        /\ matcherLanguage \in MatcherLanguages
        /\ sectionLine \in LinesOfWords(MaxWords)
        /\ sectionPc = "called"
     \/ /\ variant \in Variants
        /\ options \in OptionsSet
        /\ seed = 1
        /\ firstResult = NoNovel
        /\ rawBlocks = OpeningBlocks
        /\ pc = "block"
        /\ blockIndex = 1
        /\ lines = <<>>
        /\ i = 1
        /\ pendingText = <<>>
        /\ currentBlocks = <<>>
        /\ currentTitle = Str("Prologue")
        /\ currentNumber = NoNumber
        /\ chapterCount = 0
        /\ chapters = <<>>
        /\ result = NoNovel
        /\ matcherLanguage = options.language
        /\ sectionLine = <<>>
        /\ sectionPc = "idle"

notSection == <<asmVars, tpLanguage, tpVars, probeVars, encVars, pdfVars,
                matcherLanguage, chapterLine, matched, chapter, clientVars>>

\* the return statement a call of detectSection ends at
sectionReturn(lang, l) ==
  LET trimmed == Trim(l)
  IN IF trimmed = <<>> THEN "blank"
     ELSE IF looksLikeOpeningContent(trimmed) THEN "opening"
     ELSE IF detectSectionFrom(config(lang).section, 1, trimmed).matched
     THEN "explicit"
     ELSE IF shortHeader(trimmed) THEN "short"
     ELSE IF newswireHeader(trimmed) THEN "newswire"
     ELSE "end"

\* the call is at the return statement named
SectionAt(at) ==
  sectionPc = "called" /\ sectionReturn(matcherLanguage, sectionLine) = at

\* the call returns
SectionReturns ==
  /\ section' = detectSection(matcherLanguage, sectionLine)
  /\ sectionPc' = "returned"
  /\ UNCHANGED sectionLine
  /\ UNCHANGED notSection

\* if (!trimmed) return null
SectionBlank == SectionAt("blank") /\ SectionReturns
\* if (this.looksLikeOpeningContent(trimmed)) return null
SectionOpening == SectionAt("opening") /\ SectionReturns
\* 1) the loop returns at a pattern that matches
SectionExplicit == SectionAt("explicit") /\ SectionReturns
\* 2) return { title: trimmed }
SectionShort == SectionAt("short") /\ SectionReturns
\* 3) return { title: trimmed }
SectionNewswire == SectionAt("newswire") /\ SectionReturns
\* return null
SectionEnd == SectionAt("end") /\ SectionReturns

NextSection ==
  \/ SectionBlank
  \/ SectionOpening
  \/ SectionExplicit
  \/ SectionShort
  \/ SectionNewswire
  \/ SectionEnd
  \/ Next

SpecSection == InitSection /\ [][NextSection]_vars


\* ------------------------------------------------------------------------
\* convertBlocksToNovel on one page put together from lines that matter to
\* the heading lookaheads: headings with and without a separator or a
\* title, blank and footer lines, title-shaped and prose lines.
\* ------------------------------------------------------------------------

\* most lines in the page
MaxLines == 3

RECURSIVE PagesUpTo(_)
PagesUpTo(n) ==
  IF n = 0 THEN {<<>>}
  ELSE PagesUpTo(n - 1)
         \cup {Append(ls, HeadingVocabulary[k]) :
                 ls \in PagesUpTo(n - 1), k \in 1..Len(HeadingVocabulary)}

\* a heading whose title is on the next line, then an image
TitledImageBlocks ==
  <<TextRaw(0, <<Str("Chapter 7:"), Str("The Title")>>), ImageRaw(1)>>

\* more pages: blank and footer lines before the title and its
\* continuation, before a title that is split, before prose; lines that are
\* not split; a chapter heading in capitals after a section heading
LongPages ==
  {<<Str("It ran."), Str("Chapter 7:"), <<>>, Str("Page 7"), Str("The Title"),
     Str("PART TWO"), Str("PART TWO"), Str("It ran.")>>,
   <<Str("It ran."), Str("Chapter 7:"), Str("Page 7"), <<>>, MixedLine,
     Str("It ran.")>>,
   <<Str("Chapter 7:"), <<>>, Str("Page 7"), <<>>, Str("It ran."), Str("The Title")>>,
   <<Str("Chapter 7:"), Str("Page 7"), <<LDQUO>> \o Str("Hi"), Str("The Title")>>,
   <<Str("Chapter 7:"), <<>>, Str("The Title"), Str("Page 7"), Str("PART TWO")>>,
   <<Str("It ran."), Str("Chapter 7:"), Str("Diary IT WAS THE morning after")>>,
   <<Str("Chapter 7:"), Str("The Diary of IT WAS the morning after"), Str("It ran.")>>,
   <<Str("Chapter 7:"), Str("The Diary IT WAS THE"), Str("MORNING AFTER"), Str("It ran.")>>,
   <<Str("PART TWO"), Str("CHAPTER 5"), Str("It ran.")>>}

\* every page up to MaxLines lines, and the longer pages
HeadingPages ==
  {<<TextRaw(0, ls)>> : ls \in (PagesUpTo(MaxLines) \ {<<>>}) \cup LongPages}
    \cup {TitledImageBlocks}

InitHeadings ==
  /\ variant \in Variants
  /\ options = [title |-> Str("T"), language |-> "en", author |-> Undefined,
                series |-> Undefined, volume |-> Undefined]
  /\ seed = 1
  /\ firstResult = NoNovel
  /\ rawBlocks \in HeadingPages
  /\ pc = "block"
  /\ blockIndex = 1
  /\ lines = <<>>
  /\ i = 1
  /\ pendingText = <<>>
  /\ currentBlocks = <<>>
  /\ currentTitle = Str("Prologue")
  /\ currentNumber = NoNumber
  /\ chapterCount = 0
  /\ chapters = <<>>
  /\ result = NoNovel
  /\ tpLanguage = "en"
  /\ TpIdle
  /\ ProbeIdle
  /\ EncIdle
  /\ PdfIdle
  /\ MatchIdle
  /\ ClientIdle

SpecHeadings == InitHeadings /\ [][Next]_vars


\* --- convertBlocksToNovel on two pages ---

\* most lines of one of the two pages
MaxPageLines == 2

RECURSIVE ShortPages(_)
ShortPages(n) ==
  IF n = 0 THEN {<<>>}
  ELSE ShortPages(n - 1)
         \cup {Append(ls, PageVocabulary[k]) :
                 ls \in ShortPages(n - 1), k \in 1..Len(PageVocabulary)}

\* two text blocks, one after the other or with an image between them
TwoPages ==
  {<<TextRaw(0, p), TextRaw(1, q)>> :
     p \in ShortPages(MaxPageLines), q \in ShortPages(MaxPageLines)}
    \cup {<<TextRaw(0, p), ImageRaw(1), TextRaw(1, q)>> :
            p \in ShortPages(MaxPageLines), q \in ShortPages(MaxPageLines)}

InitPages ==
  /\ variant \in Variants
  /\ options = [title |-> Str("T"), language |-> "en", author |-> Undefined,
                series |-> Undefined, volume |-> Undefined]
  /\ seed = 1
  /\ firstResult = NoNovel
  /\ rawBlocks \in TwoPages
  /\ pc = "block"
  /\ blockIndex = 1
  /\ lines = <<>>
  /\ i = 1
  /\ pendingText = <<>>
  /\ currentBlocks = <<>>
  /\ currentTitle = Str("Prologue")
  /\ currentNumber = NoNumber
  /\ chapterCount = 0
  /\ chapters = <<>>
  /\ result = NoNovel
  /\ tpLanguage = "en"
  /\ TpIdle
  /\ ProbeIdle
  /\ EncIdle
  /\ PdfIdle
  /\ MatchIdle
  /\ ClientIdle

SpecPages == InitPages /\ [][Next]_vars


\* ------------------------------------------------------------------------
\* The reader store: useReaderStore, persisted (unnamed/part_001)
\* ------------------------------------------------------------------------

\* the files chosen on the upload page
Files ==
  {[name |-> Str("a.pdf"), size |-> 1, lastModified |-> 1],
   [name |-> Str("b.pdf"), size |-> 2, lastModified |-> 2]}

\* `${file.name}-${file.size}-${file.lastModified}`
generatedNovelId(file) ==
  file.name \o Str("-") \o NumberToDigits(file.size)
            \o Str("-") \o NumberToDigits(file.lastModified)

NovelIds == {generatedNovelId(file) : file \in Files}

\* the novels /api/convert answers with
ServedNovels == {[metadata |-> [title |-> Str("A")]], [metadata |-> [title |-> Str("B")]]}

\* what new Date().toISOString() gives
MaxInstant == 2
Instants == 1..MaxInstant

NovelMetas ==
  [id : NovelIds, title : {nv.metadata.title : nv \in ServedNovels},
   fileName : {file.name : file \in Files}, createdAt : Instants]

Bookmarks ==
  {[chapterId |-> Str("chapter-1"), blockId |-> Str("b1")],
   [chapterId |-> Str("chapter-1"), blockId |-> Str("b2")],
   [chapterId |-> Str("chapter-2"), blockId |-> Str("b3")],
   [chapterId |-> Str("chapter-2"), blockId |-> Str("b4")]}

\* the state of the store
readerState ==
  [currentNovel |-> currentNovel, currentNovelId |-> currentNovelId,
   bookmarksByNovelId |-> bookmarksByNovelId, recents |-> recents]

SetReaderState(st) ==
  /\ currentNovel' = st.currentNovel
  /\ currentNovelId' = st.currentNovelId
  /\ bookmarksByNovelId' = st.bookmarksByNovelId
  /\ recents' = st.recents

\* state.recents.filter((m) => m.id !== meta.id)
RECURSIVE withoutCurrent(_, _)
withoutCurrent(ms, meta) ==
  IF ms = <<>> THEN <<>>
  ELSE (IF ms[1].id # meta.id THEN <<ms[1]>> ELSE <<>>)
         \o withoutCurrent(Tail(ms), meta)

\* a faulty setCurrentNovel: the list is not filtered
setCurrentNovelUnfiltered(st, nv, meta) ==
  [st EXCEPT !.currentNovel = nv, !.currentNovelId = meta.id,
             !.recents = <<meta>> \o @]

setCurrentNovel(st, nv, meta) ==
  [st EXCEPT !.currentNovel = nv,
             !.currentNovelId = meta.id,
             !.recents = <<meta>> \o withoutCurrent(@, meta)]

\* if (!currentNovelId) return: null and "" are falsy
Falsy(v) == v = Null \/ v = <<>>

\* { ...state.bookmarksByNovelId, [currentNovelId]: bookmark }
saveBookmarkForCurrent(st, bm) ==
  IF Falsy(st.currentNovelId) THEN st
  ELSE [st EXCEPT !.bookmarksByNovelId =
          [key \in DOMAIN @ \cup {st.currentNovelId} |->
             IF key = st.currentNovelId THEN bm ELSE @[key]]]

\* bookmarksByNovelId[currentNovelId] ?? null
getBookmarkForCurrent(st) ==
  IF Falsy(st.currentNovelId) THEN NullObject
  ELSE IF st.currentNovelId \in DOMAIN st.bookmarksByNovelId
  THEN st.bookmarksByNovelId[st.currentNovelId]
  ELSE NullObject

clearCurrent(st) == [st EXCEPT !.currentNovel = NullObject, !.currentNovelId = Null]

notReader == <<asmVars, tpLanguage, tpVars, probeVars, encVars, pdfVars, matchVars,
               legacyVars, pageVars>>

\* setCurrentNovel(novel, meta)
CallSetCurrentNovel ==
  \E nv \in ServedNovels, meta \in NovelMetas :
    /\ SetReaderState(setCurrentNovel(readerState, nv, meta))
    /\ storeCall' = [op |-> "setCurrentNovel", novel |-> nv, meta |-> meta]
    /\ UNCHANGED notReader

\* saveBookmarkForCurrent(bookmark)
CallSaveBookmarkForCurrent ==
  \E bm \in Bookmarks :
    /\ SetReaderState(saveBookmarkForCurrent(readerState, bm))
    /\ storeCall' = [op |-> "saveBookmarkForCurrent", bookmark |-> bm]
    /\ UNCHANGED notReader

\* clearCurrent()
CallClearCurrent ==
  /\ SetReaderState(clearCurrent(readerState))
  /\ storeCall' = [op |-> "clearCurrent"]
  /\ UNCHANGED notReader

InitReader ==
  /\ AsmIdle /\ TpIdle /\ ProbeIdle /\ EncIdle /\ PdfIdle /\ MatchIdle
  /\ tpLanguage = "en"
  /\ ClientIdle

NextReader ==
  \/ CallSetCurrentNovel
  \/ CallSaveBookmarkForCurrent
  \/ CallClearCurrent

SpecReader == InitReader /\ [][NextReader]_vars

\* ------------------------------------------------------------------------
\* The reader store of src/store/useReaderStore.ts, with one bookmark field
\* and the bookmarks kept in localStorage
\* ------------------------------------------------------------------------

legacyState ==
  [novel |-> novel, novelId |-> novelId, bookmark |-> bookmark,
   localStorage |-> localStorage]

SetLegacyState(st) ==
  /\ novel' = st.novel
  /\ novelId' = st.novelId
  /\ bookmark' = st.bookmark
  /\ localStorage' = st.localStorage

\* `bookmark:${novelId}`
bookmarkKey(id) == Str("bookmark:") \o id

\* JSON.stringify(bookmark) and JSON.parse(raw)
stringify(bm) == <<"json", bm.chapterId, bm.blockId>>
parse(rawItem) == [chapterId |-> rawItem[2], blockId |-> rawItem[3]]

\* localStorage.getItem(key)
getItem(items, key) == IF key \in DOMAIN items THEN items[key] ELSE Null

\* localStorage.setItem(key, value)
setItem(items, key, value) ==
  [it \in DOMAIN items \cup {key} |-> IF it = key THEN value ELSE items[it]]

\* if (!raw) return; set({ bookmark: JSON.parse(raw) })
loadBookmark(st, id) ==
  IF getItem(st.localStorage, bookmarkKey(id)) = Null THEN st
  ELSE [st EXCEPT !.bookmark = parse(getItem(st.localStorage, bookmarkKey(id)))]

\* set({ novel, novelId }); get().loadBookmark(novelId)
setNovel(st, nv, id) ==
  loadBookmark([st EXCEPT !.novel = nv, !.novelId = id], id)

\* if (!novelId) return; localStorage.setItem(...); set({ bookmark })
saveBookmark(st, bm) ==
  IF Falsy(st.novelId) THEN st
  ELSE [st EXCEPT !.localStorage = setItem(@, bookmarkKey(st.novelId), stringify(bm)),
                  !.bookmark = bm]

notLegacy == <<asmVars, tpLanguage, tpVars, probeVars, encVars, pdfVars, matchVars,
               readerVars, pageVars>>

\* setNovel(novel, novelId): the Reader's effect on [novel, novelId]
CallSetNovel ==
  \E nv \in ServedNovels, id \in NovelIds :
    /\ SetLegacyState(setNovel(legacyState, nv, id))
    /\ UNCHANGED notLegacy

\* loadBookmark(novelId)
CallLoadBookmark ==
  \E id \in NovelIds :
    /\ SetLegacyState(loadBookmark(legacyState, id))
    /\ UNCHANGED notLegacy

\* saveBookmark(bookmark)
CallSaveBookmark ==
  \E bm \in Bookmarks :
    /\ SetLegacyState(saveBookmark(legacyState, bm))
    /\ UNCHANGED notLegacy

NextLegacy ==
  \/ CallSetNovel
  \/ CallLoadBookmark
  \/ CallSaveBookmark

SpecLegacy == InitReader /\ [][NextLegacy]_vars


\* ------------------------------------------------------------------------
\* The upload page: HomePage (unnamed/part_003) on the persisted store
\* ------------------------------------------------------------------------

MaxRequests == 2
MaxLogLines == 2
MaxTicks == 2

\* the logs of an answer of /api/convert
LogLists ==
  {[n \in 1..len |-> Str("log ") \o NumberToDigits(n)] : len \in 0..MaxLogLines}

\* the id window.setInterval returns
Interval == <<"interval">>

\* progress is held in units of 1 / ProgressScale, which the steps of the
\* estimated progress divide exactly
RECURSIVE Power(_, _)
Power(base, e) == IF e = 0 THEN 1 ELSE base * Power(base, e - 1)

ProgressScale == Power(20, MaxTicks)

Percent(n) == n * ProgressScale

Larger(a, b) == IF a >= b THEN a ELSE b
Smaller(a, b) == IF a <= b THEN a ELSE b

\* the callback of startEstimatedProgress
estimatedProgress(prev) ==
  IF prev >= Percent(99) THEN Percent(99)
  ELSE Smaller(prev + Larger((Percent(99) - prev) \div 20, (3 * ProgressScale) \div 10),
               Percent(99))

\* Math.round(((index + 1) / logsArray.length) * 100), index counted from 0
replayProgress(index, len) == Percent(((index + 1) * 200 + len) \div (2 * len))

\* a request in flight: stage is "fetch" (awaiting /api/convert), "replay"
\* (the timeouts of the logs pending, index the next of them), "linger" (the
\* timeout of finalize pending), "load" (awaiting loadNovelFromDb), "done" or
\* "failed"; concurrent tells whether it started while an earlier conversion
\* was awaiting its answer or replaying its logs
Running(req) == req.stage \notin {"done", "failed"}

Converting(req) == req.kind = "convert" /\ req.stage \in {"fetch", "replay"}

SetRequest(r, req) == requests' = [requests EXCEPT ![r] = req]

notPage == <<asmVars, tpLanguage, tpVars, probeVars, encVars, pdfVars, matchVars,
             legacyVars>>

\* convertFile(file) up to the await of fetch: resetLoadingUI()
StartConvert ==
  \E file \in Files :
    /\ Len(requests) < MaxRequests
    /\ SetReaderState(clearCurrent(readerState))
    /\ storeCall' = [op |-> "clearCurrent"]
    /\ error' = Null
    /\ logs' = <<>>
    /\ progress' = 0
    /\ loading' = TRUE
    /\ progressTimerRef' = Interval
    /\ requests' = Append(requests,
         [kind |-> "convert", file |-> file, novelId |-> generatedNovelId(file),
          stage |-> "fetch", novelData |-> NullObject, meta |-> NullObject,
          logsArray |-> <<>>, index |-> 0,
          concurrent |-> \E r \in 1..Len(requests) : Converting(requests[r])])
    /\ UNCHANGED <<ticks, novelDb>>
    /\ UNCHANGED notPage

\* the callback of the interval
ProgressTick ==
  /\ progressTimerRef # Null
  /\ ticks < MaxTicks
  /\ progress' = estimatedProgress(progress)
  /\ ticks' = ticks + 1
  /\ UNCHANGED <<loading, error, logs, progressTimerRef, requests, novelDb>>
  /\ UNCHANGED <<readerVars>>
  /\ UNCHANGED notPage

\* the catch of convertFile: fetch rejected, the answer was not ok or not a
\* novel
ConvertFails ==
  \E r \in 1..Len(requests) :
    /\ requests[r].kind = "convert" /\ requests[r].stage = "fetch"
    /\ error' = Str("Conversion failed.")
    /\ progress' = 0
    /\ progressTimerRef' = Null
    /\ loading' = FALSE
    /\ SetRequest(r, [requests[r] EXCEPT !.stage = "failed"])
    /\ UNCHANGED <<logs, ticks, novelDb>>
    /\ UNCHANGED <<readerVars>>
    /\ UNCHANGED notPage

\* saveNovelToDb(id, novel) and loadNovelFromDb(id), on what is stored
saveNovelToDb(stored, id, nv) ==
  [key \in DOMAIN stored \cup {id} |-> IF key = id THEN nv ELSE stored[key]]

loadNovelFromDb(stored, id) == IF id \in DOMAIN stored THEN stored[id] ELSE NullObject

\* finalize(): setCurrentNovel, saveNovelToDb, setProgress(100) and the
\* timeout of 700 ms
finalize(r, req) ==
  /\ SetReaderState(setCurrentNovel(readerState, req.novelData, req.meta))
  /\ storeCall' = [op |-> "setCurrentNovel", novel |-> req.novelData, meta |-> req.meta]
  /\ novelDb' = saveNovelToDb(novelDb, req.novelId, req.novelData)
  /\ progress' = Percent(100)
  /\ SetRequest(r, [req EXCEPT !.stage = "linger"])

\* the request r once /api/convert answered the novel nv with the logs ls at
\* the instant at
answered(r, nv, ls, at) ==
  [requests[r] EXCEPT
     !.novelData = nv,
     !.logsArray = ls,
     !.meta = [id |-> requests[r].novelId, title |-> nv.metadata.title,
               fileName |-> requests[r].file.name, createdAt |-> at]]

\* the answer has no logs: finalize() at once
ConvertAnsweredWithoutLogs ==
  \E r \in 1..Len(requests), nv \in ServedNovels, at \in Instants :
    /\ requests[r].kind = "convert" /\ requests[r].stage = "fetch"
    /\ progressTimerRef' = Null
    /\ finalize(r, answered(r, nv, <<>>, at))
    /\ UNCHANGED <<loading, error, logs, ticks>>
    /\ UNCHANGED notPage

\* the answer has logs: one timeout for each of them
ConvertAnsweredWithLogs ==
  \E r \in 1..Len(requests), nv \in ServedNovels, at \in Instants,
     ls \in LogLists \ {<<>>} :
    /\ requests[r].kind = "convert" /\ requests[r].stage = "fetch"
    /\ progressTimerRef' = Null
    /\ SetRequest(r, [answered(r, nv, ls, at) EXCEPT !.stage = "replay"])
    /\ UNCHANGED <<loading, progress, error, logs, ticks, novelDb>>
    /\ UNCHANGED <<readerVars>>
    /\ UNCHANGED notPage

\* the timeout of a log that is not the last
LogTimeout ==
  \E r \in 1..Len(requests) :
    /\ requests[r].stage = "replay"
    /\ requests[r].index < Len(requests[r].logsArray) - 1
    /\ logs' = Append(logs, requests[r].logsArray[requests[r].index + 1])
    /\ progress' = replayProgress(requests[r].index, Len(requests[r].logsArray))
    /\ SetRequest(r, [requests[r] EXCEPT !.index = @ + 1])
    /\ UNCHANGED <<loading, error, progressTimerRef, ticks, novelDb>>
    /\ UNCHANGED <<readerVars>>
    /\ UNCHANGED notPage

\* the timeout of the last log: finalize()
LastLogTimeout ==
  \E r \in 1..Len(requests) :
    /\ requests[r].stage = "replay"
    /\ requests[r].index = Len(requests[r].logsArray) - 1
    /\ logs' = Append(logs, requests[r].logsArray[requests[r].index + 1])
    /\ finalize(r, requests[r])
    /\ UNCHANGED <<loading, error, progressTimerRef, ticks>>
    /\ UNCHANGED notPage

\* the timeout of finalize: setProgress(0); setLoading(false)
LingerTimeout ==
  \E r \in 1..Len(requests) :
    /\ requests[r].stage = "linger"
    /\ progress' = 0
    /\ loading' = FALSE
    /\ SetRequest(r, [requests[r] EXCEPT !.stage = "done"])
    /\ UNCHANGED <<error, logs, progressTimerRef, ticks, novelDb>>
    /\ UNCHANGED <<readerVars>>
    /\ UNCHANGED notPage

\* recents.find((r) => r.id === novelId)
metaFromRecents(ms, id) ==
  IF \E n \in 1..Len(ms) : ms[n].id = id
  THEN ms[CHOOSE n \in 1..Len(ms) : ms[n].id = id /\ \A o \in 1..(n - 1) : ms[o].id # id]
  ELSE NullObject

\* handleSelectExisting(novelId) up to the await of loadNovelFromDb, on an
\* option of the select
StartSelect ==
  \E n \in 1..Len(recents) :
    /\ Len(requests) < MaxRequests
    /\ ~Falsy(recents[n].id)
    /\ recents[n].id # currentNovelId
    /\ loading' = TRUE
    /\ error' = Null
    /\ requests' = Append(requests,
         [kind |-> "select", file |-> NullObject, novelId |-> recents[n].id,
          stage |-> "load", novelData |-> NullObject,
          meta |-> metaFromRecents(recents, recents[n].id),
          logsArray |-> <<>>, index |-> 0,
          concurrent |-> \E r \in 1..Len(requests) : Converting(requests[r])])
    /\ UNCHANGED <<progress, logs, progressTimerRef, ticks, novelDb>>
    /\ UNCHANGED <<readerVars>>
    /\ UNCHANGED notPage

\* loadNovelFromDb gave the novel: setCurrentNovel(cached, meta); finally
SelectLoaded ==
  \E r \in 1..Len(requests) :
    /\ requests[r].kind = "select" /\ requests[r].stage = "load"
    /\ loadNovelFromDb(novelDb, requests[r].novelId) # NullObject
    /\ SetReaderState(setCurrentNovel(readerState, loadNovelFromDb(novelDb, requests[r].novelId),
                                      requests[r].meta))
    /\ storeCall' = [op |-> "setCurrentNovel",
                     novel |-> loadNovelFromDb(novelDb, requests[r].novelId),
                     meta |-> requests[r].meta]
    /\ loading' = FALSE
    /\ SetRequest(r, [requests[r] EXCEPT !.stage = "done",
                                         !.novelData = loadNovelFromDb(novelDb, requests[r].novelId)])
    /\ UNCHANGED <<progress, error, logs, progressTimerRef, ticks, novelDb>>
    /\ UNCHANGED notPage

\* loadNovelFromDb gave nothing, or threw
SelectFails ==
  \E r \in 1..Len(requests),
     message \in {Str("This novel is not available locally anymore."),
                  Str("Failed to load the local novel.")} :
    /\ requests[r].kind = "select" /\ requests[r].stage = "load"
    /\ error' = message
    /\ loading' = FALSE
    /\ SetRequest(r, [requests[r] EXCEPT !.stage = "failed"])
    /\ UNCHANGED <<progress, logs, progressTimerRef, ticks, novelDb>>
    /\ UNCHANGED <<readerVars>>
    /\ UNCHANGED notPage

NextUpload ==
  \/ StartConvert
  \/ ProgressTick
  \/ ConvertFails
  \/ ConvertAnsweredWithoutLogs
  \/ ConvertAnsweredWithLogs
  \/ LogTimeout
  \/ LastLogTimeout
  \/ LingerTimeout
  \/ StartSelect
  \/ SelectLoaded
  \/ SelectFails

\* what an earlier visit may have left: nothing, or a novel converted,
\* stored and listed, and no current novel
EarlierVisits ==
  {[recents |-> <<>>, novelDb |-> <<>>]}
    \cup {[recents |-> <<[id |-> generatedNovelId(file), title |-> nv.metadata.title,
                          fileName |-> file.name, createdAt |-> 1]>>,
           novelDb |-> saveNovelToDb(<<>>, generatedNovelId(file), nv)] :
             file \in Files, nv \in ServedNovels}

InitUpload ==
  /\ AsmIdle /\ TpIdle /\ ProbeIdle /\ EncIdle /\ PdfIdle /\ MatchIdle
  /\ tpLanguage = "en"
  /\ LegacyIdle
  /\ \E earlier \in EarlierVisits :
       /\ recents = earlier.recents
       /\ novelDb = earlier.novelDb
  /\ currentNovel = NullObject
  /\ currentNovelId = Null
  /\ bookmarksByNovelId = <<>>
  /\ storeCall = [op |-> "none"]
  /\ loading = FALSE
  /\ progress = 0
  /\ error = Null
  /\ logs = <<>>
  /\ progressTimerRef = Null
  /\ ticks = 0
  /\ requests = <<>>

SpecUpload == InitUpload /\ [][NextUpload]_vars


\* ------------------------------------------------------------------------
\* Properties of convertBlocksToNovel (specification Spec)
\* ------------------------------------------------------------------------

Contains(s, sub) ==
  \E k \in 0..(Len(s) - Len(sub)) : SubSeq(s, k + 1, k + Len(sub)) = sub

Last(s) == s[Len(s)]

\* the decimal numeral of a number below 100
Decimal(n) ==
  (IF n >= 10 THEN <<DigitSeq[(n \div 10) + 1]>> ELSE <<>>)
    \o <<DigitSeq[(n % 10) + 1]>>

\* the loop over the lines is at a line it does not skip
AtLineOfText ==
  /\ pc = "lines" /\ i <= Len(lines)
  /\ line # <<>>
  /\ ~(variant = "storage" /\ isPageLine(line))

AtChapterLine == AtLineOfText /\ detectChapter(language, line).found

AtHeadingLine ==
  AtLineOfText /\ lineBranch(variant, language, line) \in {"chapter", "section"}

\* neither a block nor text that yields a block has been accumulated
NothingAccumulated ==
  /\ currentBlocks = <<>>
  /\ \/ Trim(pendingText) = <<>>
     \/ processContent(language, Trim(pendingText)) = <<>>

Sentence == Str("It ran.") \o <<NL>>

\* C1: every chapter, in the list being built and in the document returned,
\* has at least one block; and a step taken while neither a block nor text
\* that yields a block has been accumulated (a heading right after a heading,
\* the end of the input right after a heading) adds no chapter.
C1_EveryChapterHasABlock ==
  [][/\ \A n \in 1..Len(chapters') : Len(chapters'[n].blocks) >= 1
     /\ (pc' = "done") =>
          (\A n \in 1..Len(result'.chapters) : Len(result'.chapters[n].blocks) >= 1)
     /\ NothingAccumulated => (chapters' = chapters)]_vars

\* a chapter heading followed at once by a section heading: only the section
\* becomes a chapter
C1_HeadingDropped ==
  /\ pc = "done"
  /\ rawBlocks = <<TextRaw(0, <<Str("Chapter 7: Go"), Str("PROLOGUE"), Sentence>>)>>
  /\ Len(result.chapters) = 1
  /\ result.chapters[1].title = Str("PROLOGUE")
  /\ Len(result.chapters[1].blocks) = 1

\* C2: the n-th chapter has the id "chapter-n", so the ids count up from 1
\* without a gap and are pairwise distinct, whatever headings were dropped
\* and whatever the chapter numbers are; the document returned holds these
\* chapters.
C2_ChapterIds ==
  /\ \A n \in 1..Len(chapters) : chapters[n].id = Str("chapter-") \o Decimal(n)
  /\ \A m, n \in 1..Len(chapters) : (m # n) => (chapters[m].id # chapters[n].id)
  /\ (pc = "done") => (result.chapters = chapters)

\* text, a heading that is dropped, a heading numbered 0, text: the numbers
\* are 1 then 0, the ids chapter-1 then chapter-2
C2_IdsDespiteDroppedHeading ==
  /\ pc = "done"
  /\ rawBlocks = <<TextRaw(0, <<Sentence, Str("Chapter 7: Go"), Str("Chapter 0"),
                               Sentence>>)>>
  /\ Len(result.chapters) = 2
  /\ result.chapters[1].number = 1 /\ result.chapters[1].id = Str("chapter-1")
  /\ result.chapters[2].number = 0 /\ result.chapters[2].id = Str("chapter-2")

\* C3: the number in force is the one detectChapter captured on the last
\* chapter heading (0 included) and none after a section heading or a push;
\* a chapter is pushed with the number in force when there is one, and
\* otherwise with its 1-based position among the chapters; nothing else
\* changes a number.
C3_ChapterNumbers ==
  [][/\ AtChapterLine => (currentNumber' = detectChapter(language, line).number)
     /\ (~AtChapterLine) => (currentNumber' \in {currentNumber, NoNumber})
     /\ (chapters' # chapters) =>
          /\ Len(chapters') = Len(chapters) + 1
          /\ SubSeq(chapters', 1, Len(chapters)) = chapters
          /\ Last(chapters').number =
               IF currentNumber.has THEN currentNumber.val ELSE Len(chapters')]_vars

\* a chapter numbered 0 by its heading, then a section numbered by position
C3_ZeroAndFallback ==
  /\ pc = "done"
  /\ Len(result.chapters) = 2
  /\ result.chapters[1].number = 0
  /\ Contains(result.chapters[1].title, Str("Chapter 0"))
  /\ result.chapters[2].number = 2
  /\ result.chapters[2].title = Str("PROLOGUE")

NonBlank(c) == \E k \in 1..Len(c.title) : c.title[k] \notin WhiteSpace

\* C4: the table of contents returned is the chapters with a non-blank title,
\* in order, each as {id, label: title, chapterNumber: number}; every id in
\* it is the id of a chapter.
C4_TocFromChapters ==
  (pc = "done") =>
    LET kept == SelectSeq(result.chapters, NonBlank)
    IN /\ Len(result.toc) = Len(kept)
       /\ \A n \in 1..Len(kept) :
            result.toc[n] = [id |-> kept[n].id, label |-> kept[n].title,
                             chapterNumber |-> kept[n].number]
       /\ \A n \in 1..Len(result.toc) :
            \E m \in 1..Len(result.chapters) :
              result.chapters[m].id = result.toc[n].id

\* a table of two entries whose numbers are not their positions
C4_TwoEntries ==
  /\ pc = "done"
  /\ Len(result.toc) = 2
  /\ result.toc[1].chapterNumber = 7 /\ result.toc[1].id = Str("chapter-1")
  /\ result.toc[2].chapterNumber = 0 /\ result.toc[2].id = Str("chapter-2")

\* C5: the two example pages give one chapter, numbered 1, whose title
\* contains "Chapter 1: Arrival", with three blocks: a paragraph for the
\* sentence and a dialogue for each of the two quotations.
C5_EndToEndExample ==
  (pc = "done" /\ rawBlocks = ExampleBlocks /\ language = "en") =>
    /\ Len(result.chapters) = 1
    /\ result.chapters[1].number = 1
    /\ Contains(result.chapters[1].title, Str("Chapter 1: Arrival"))
    /\ Len(result.chapters[1].blocks) = 3
    /\ result.chapters[1].blocks[1].type = "paragraph"
    /\ Contains(result.chapters[1].blocks[1].html, Str("The sky was red."))
    /\ result.chapters[1].blocks[2].type = "dialogue"
    /\ Contains(result.chapters[1].blocks[2].html, Str("\"Stop!\" she shouted."))
    /\ result.chapters[1].blocks[3].type = "dialogue"
    /\ Contains(result.chapters[1].blocks[3].html, Str("\"Why?\" he asked."))

\* C11: on no raw block at all the document returned has no chapter and an
\* empty table of contents, and its metadata are the title, language,
\* author, series and volume of the options, unchanged.
C11_EmptyInput ==
  (pc = "done" /\ rawBlocks = <<>>) =>
    /\ result.toc = <<>>
    /\ result.chapters = <<>>
    /\ DOMAIN result.metadata = {"title", "language", "author", "series", "volume"}
    /\ \A f \in DOMAIN result.metadata : result.metadata[f] = options[f]

\* the empty input converted with an author, a series and a volume
C11_EmptyWithFullOptions ==
  /\ pc = "done"
  /\ rawBlocks = <<>>
  /\ options.author = Str("A")
  /\ result.metadata.author = Str("A")
  /\ result.metadata.title = Str(" T&")
  /\ result.chapters = <<>>

FirstDigitAt(l) ==
  CHOOSE k \in 1..Len(l) : l[k] \in Digits /\ \A m \in 1..(k - 1) : l[m] \notin Digits

RECURSIVE DigitRun(_, _)
DigitRun(l, k) ==
  IF k <= Len(l) /\ l[k] \in Digits THEN <<l[k]>> \o DigitRun(l, k + 1) ELSE <<>>

\* the value of the first run of digits of a line
FirstNumber(l) == DigitsToNumber(DigitRun(l, FirstDigitAt(l)))

\* the loop is at a chapter heading with an inline number and an inline title
AtInlineHeading ==
  /\ AtChapterLine
  /\ detectChapter(language, line).number.has
  /\ detectChapter(language, line).title # <<>>

\* --- C12 ---

\* a block, its opaque id left out
withoutId(b) == [f \in DOMAIN b \ {"id"} |-> b[f]]

\* a Novel, the ids of its blocks left out: metadata, toc labels, ids and
\* chapterNumbers, chapter ids, numbers and titles, and the type, html, src
\* and alt of every block in its place
withoutBlockIds(nv) ==
  [metadata |-> nv.metadata,
   toc |-> nv.toc,
   chapters |-> [c \in DOMAIN nv.chapters |->
                   [nv.chapters[c] EXCEPT
                      !.blocks = [b \in DOMAIN @ |-> withoutId(@[b])]]]]

\* C12: when a second call of convertBlocksToNovel on the same blocks and
\* options has returned, its Novel and the first call's agree on metadata,
\* on the toc, on chapter ids, numbers and titles, and on the type, markup,
\* src and order of every block; only the block ids may differ.
C12_TwoRunsAgree ==
  (pc = "done" /\ calledBefore) =>
    withoutBlockIds(result) = withoutBlockIds(firstResult)

\* two calls on a page with text have returned Novels with a chapter each,
\* whose blocks carry different ids and are otherwise the same
C12_SameButForIds ==
  /\ pc = "done" /\ calledBefore
  /\ result.chapters # <<>>
  /\ result.chapters[1].blocks # <<>>
  /\ result.chapters[1].blocks[1].id # firstResult.chapters[1].blocks[1].id
  /\ result # firstResult
  /\ withoutBlockIds(result) = withoutBlockIds(firstResult)

\* --- C13 ---

\* the loop over the raw blocks is at an image block
AtImage == pc = "block" /\ blockIndex <= Len(rawBlocks) /\ raw.kind = "image"

\* the blocks the segmenter makes of a text, as type and markup
Segmented(lang, txt) ==
  [k \in DOMAIN processContent(lang, Trim(txt)) |->
     [type |-> processContent(lang, Trim(txt))[k].type,
      html |-> processContent(lang, Trim(txt))[k].html]]

IsPrefix(s, ls) == Len(s) <= Len(ls) /\ SubSeq(ls, 1, Len(s)) = s

\* C13: the step that processes an image block leaves no text pending and
\* puts into the current chapter, after the blocks it already has, the
\* blocks of all the text that was pending and then the image block, so the
\* text before the image is in blocks before it and shares no block with
\* the text after it; and a step only appends to the blocks of the current
\* chapter, until it closes the chapter with them, so the text after the
\* image comes later.
C13_ImageAfterPendingText ==
  [][/\ AtImage =>
          /\ pendingText' = <<>>
          /\ chapters' = chapters
          /\ Len(currentBlocks') =
                Len(currentBlocks) + Len(Segmented(language, pendingText)) + 1
          /\ IsPrefix(currentBlocks, currentBlocks')
          /\ \A k \in DOMAIN Segmented(language, pendingText) :
                /\ currentBlocks'[Len(currentBlocks) + k].type =
                     Segmented(language, pendingText)[k].type
                /\ currentBlocks'[Len(currentBlocks) + k].html =
                     Segmented(language, pendingText)[k].html
          /\ Last(currentBlocks').type = "image"
          /\ Last(currentBlocks').src = raw.dataUrl
     /\ chapters' = chapters => IsPrefix(currentBlocks, currentBlocks')
     /\ chapters' # chapters =>
          /\ Len(chapters') = Len(chapters) + 1
          /\ IsPrefix(currentBlocks, Last(chapters').blocks)
          /\ currentBlocks' = <<>>]_vars

\* an image block was just processed while a line of text was pending: the
\* chapter has the paragraph of that text, then the image, nothing is
\* pending, and a text block comes next
C13_ParagraphThenImage ==
  /\ pc = "block" /\ blockIndex > 1 /\ blockIndex <= Len(rawBlocks)
  /\ rawBlocks[blockIndex - 1].kind = "image"
  /\ rawBlocks[1].kind = "text"
  /\ raw.kind = "text"
  /\ pendingText = <<>>
  /\ Len(currentBlocks) = 2
  /\ currentBlocks[1].type = "paragraph"
  /\ currentBlocks[1].html = Str("<p>It ran.</p>")
  /\ currentBlocks[2].type = "image"

\* --- C16 ---

\* the raw blocks are in ascending order of (pageIndex, order)
RawSorted(rs) ==
  \A k \in 1..(Len(rs) - 1) :
    \/ rs[k].pageIndex < rs[k + 1].pageIndex
    \/ rs[k].pageIndex = rs[k + 1].pageIndex /\ rs[k].order <= rs[k + 1].order

\* C16: on raw blocks that are not in ascending order of (pageIndex, order)
\* the conversion does not return a Novel.
C16_UnsortedIsRejected == ~RawSorted(rawBlocks) => pc # "done"

Quoted(c) == <<DQ, c, DQ>>

\* C6: the text "A" "B" "C" is segmented into the three lines "A", "B" and
\* "C", each with its opening and closing quote, and so into three dialogue
\* blocks.
C6_QuotationsSplit ==
  (tpc = "done" /\ text = QuotedABC) =>
    /\ rawLines = <<Quoted("A"), Quoted("B"), Quoted("C")>>
    /\ Len(blocks) = 3
    /\ \A n \in 1..3 : blocks[n].type = "dialogue"

GlyphsAt(txt) == {k \in 1..Len(txt) : txt[k] = LOZENGE}

\* the lozenges of the text are one run of three or more, with nothing but
\* spaces inside the run
OneGlyphRun(txt) ==
  /\ Cardinality(GlyphsAt(txt)) >= 3
  /\ \A k \in 1..Len(txt) :
       (\E a, b \in GlyphsAt(txt) : a <= k /\ k <= b) => (txt[k] \in {LOZENGE, SP})

IsSceneBreakBlock(b) == StartsWith(b.html, Str("<p class=\"scene-break\">"))

\* C7: a text whose scene-break glyphs form one run of three or more gives
\* exactly one scene-break block, and no glyph in any other block.
C7_OneSceneBreakPerRun ==
  (tpc = "done" /\ OneGlyphRun(text)) =>
    /\ Cardinality({n \in 1..Len(blocks) : IsSceneBreakBlock(blocks[n])}) = 1
    /\ \A n \in 1..Len(blocks) :
         IsSceneBreakBlock(blocks[n]) \/ GlyphsAt(blocks[n].html) = {}

SingleLeadingQuote(l) == l # <<>> /\ l[1] = DQ /\ CountIn(l, {DQ}) = 1

\* the loop over the lines is at a line that had one straight quote, in front
AtQuoteNoiseLine ==
  /\ tpc = "lines" /\ lineIndex <= Len(rawLines)
  /\ SingleLeadingQuote(rawLines[lineIndex])

AfterQuote == Tail(rawLines[lineIndex])

\* the step takes the line l as narration: it joins the accumulated
\* narration, which is pushed as a paragraph if the line ends a sentence
TakenAsNarration(l) ==
  LET joined == current \o (IF current # <<>> THEN <<SP>> ELSE <<>>) \o l
  IN /\ inDialogue' = FALSE
     /\ \/ blocks' = blocks /\ current' = joined
        \/ /\ blocks' = Append(blocks,
                          [type |-> "paragraph",
                           html |-> Str("<p>") \o escapeHtml(Trim(joined)) \o Str("</p>")])
           /\ current' = <<>>

MarkersOf(lang) == {DialogueMarkers[lang][k] : k \in 1..Len(DialogueMarkers[lang])}

BeginsWithMarker(lang, l) == Trim(l) # <<>> /\ Trim(l)[1] \in MarkersOf(lang)

\* C8, as stated: a line with one straight quote, in front, loses the quote
\* and is taken as narration.
C8_AsStated ==
  [][AtQuoteNoiseLine =>
       (cleanLines[lineIndex] = AfterQuote /\ TakenAsNarration(AfterQuote))]_vars

\* C8, amended: a line with one straight quote, in front, loses the quote;
\* it is taken as narration when no dialogue is open and what follows the
\* quote neither begins with a dialogue marker of the language nor is a
\* scene break.
C8_QuoteNoiseIsNarration ==
  [][AtQuoteNoiseLine =>
       /\ cleanLines[lineIndex] = AfterQuote
       /\ (/\ ~inDialogue
           /\ ~BeginsWithMarker(tpLanguage, AfterQuote)
           /\ ~isSceneBreak(AfterQuote)) => TakenAsNarration(AfterQuote)]_vars

\* the line of the documentation, as one paragraph without its quote
C8_HearingLineIsParagraph ==
  /\ tpc = "done"
  /\ text = HearingLine
  /\ blocks = <<[type |-> "paragraph",
                 html |-> Str("<p>Hearing the news, he paused.</p>")]>>


\* ------------------------------------------------------------------------
\* Properties of TextProcessor.isDialogueStart (specification SpecProbe)
\* ------------------------------------------------------------------------

\* C9: a line, taken without the white space around it as isDialogueStart
\* takes it, is a dialogue start exactly when it begins with a dialogue
\* marker of the language and, if that marker is the straight double quote,
\* holds at least two straight double quotes.
C9_DialogueStart ==
  probed =>
    (dialogueStart <=>
       LET t == Trim(probeLine)
       IN /\ t # <<>>
          /\ t[1] \in MarkersOf(tpLanguage)
          /\ (t[1] = DQ) => (CountIn(t, {DQ}) >= 2))

\* a line opened and closed by a straight quote is a dialogue start
C9_TwoQuotes ==
  /\ probed
  /\ tpLanguage = "fr"
  /\ probeLine = Quoted("A")
  /\ dialogueStart

\* ------------------------------------------------------------------------
\* Properties of encodeRGBAtoPNG (specification SpecEnc)
\* ------------------------------------------------------------------------

\* --- a PNG decoder, after the PNG, zlib and base64 standards: 8-bit RGBA,
\* filter type None, stored blocks ---

Undecodable == [ok |-> FALSE, width |-> 0, height |-> 0, pixels |-> <<>>]

Base64Value(c) == CHOOSE n \in 0..63 : Base64Alphabet[n + 1] = c

RECURSIVE fromBase64From(_, _)
fromBase64From(s, k) ==
  IF k + 3 > Len(s) THEN <<>>
  ELSE IF s[k + 2] = "="
  THEN <<(Base64Value(s[k]) * 4) + (Base64Value(s[k + 1]) \div 16)>>
  ELSE IF s[k + 3] = "="
  THEN <<(Base64Value(s[k]) * 4) + (Base64Value(s[k + 1]) \div 16),
         ((Base64Value(s[k + 1]) % 16) * 16) + (Base64Value(s[k + 2]) \div 4)>>
  ELSE <<(Base64Value(s[k]) * 4) + (Base64Value(s[k + 1]) \div 16),
         ((Base64Value(s[k + 1]) % 16) * 16) + (Base64Value(s[k + 2]) \div 4),
         ((Base64Value(s[k + 2]) % 4) * 64) + Base64Value(s[k + 3])>>
         \o fromBase64From(s, k + 4)

fromBase64(s) == fromBase64From(s, 1)

\* the number a big-endian word stands for
WordValue(w) == (((((w[1] * 256) + w[2]) * 256) + w[3]) * 256) + w[4]

\* the CRC of the PNG standard, bit by bit: polynomial edb88320, reflected
RECURSIVE PngCrcBits(_, _)
PngCrcBits(c, k) ==
  IF k = 0 THEN c
  ELSE IF c[4] % 2 = 1
  THEN PngCrcBits(WordXor(<<237, 184, 131, 32>>, WordShift1(c)), k - 1)
  ELSE PngCrcBits(WordShift1(c), k - 1)

PngCrc(buf) ==
  LET over[c \in Seq(Int), lo \in Int, hi \in Int] ==
        IF lo > hi THEN c
        ELSE IF lo = hi THEN PngCrcBits(WordXor(c, <<0, 0, 0, buf[lo]>>), 8)
        ELSE over[over[c, lo, (lo + hi) \div 2], ((lo + hi) \div 2) + 1, hi]
  IN WordNot(over[<<255, 255, 255, 255>>, 1, Len(buf)])

\* the chunks from position k on: type, data, whether the CRC is right; a
\* chunk that runs past the end is malformed
RECURSIVE PngChunks(_, _)
PngChunks(buf, k) ==
  IF k > Len(buf) THEN <<>>
  ELSE IF k + 11 > Len(buf) \/ k + 11 + WordValue(SubSeq(buf, k, k + 3)) > Len(buf)
  THEN <<[type |-> <<>>, data |-> <<>>, crcOk |-> FALSE]>>
  ELSE LET len == WordValue(SubSeq(buf, k, k + 3))
       IN <<[type |-> SubSeq(buf, k + 4, k + 7),
             data |-> SubSeq(buf, k + 8, k + 7 + len),
             crcOk |-> SubSeq(buf, k + 8 + len, k + 11 + len)
                         = PngCrc(SubSeq(buf, k + 4, k + 7 + len))]>>
            \o PngChunks(buf, k + 12 + len)

\* inflate of a zlib stream made of one stored block
Inflate(z) ==
  IF /\ Len(z) >= 11
     /\ z[1] = 120 /\ ((z[1] * 256) + z[2]) % 31 = 0
     /\ z[3] = 1
     /\ z[6] = 255 - z[4] /\ z[7] = 255 - z[5]
     /\ Len(z) = 11 + z[4] + (256 * z[5])
     /\ SubSeq(z, Len(z) - 3, Len(z)) = adler32(SubSeq(z, 8, Len(z) - 4))
  THEN [ok |-> TRUE, data |-> SubSeq(z, 8, Len(z) - 4)]
  ELSE [ok |-> FALSE, data |-> <<>>]

\* the pixels of scanlines of filter type None
RECURSIVE Unfilter(_, _, _)
Unfilter(scan, stride, k) ==
  IF k > Len(scan) THEN <<>>
  ELSE SubSeq(scan, k + 1, k + stride) \o Unfilter(scan, stride, k + stride + 1)

FilterNone(scan, stride) ==
  \A k \in 1..Len(scan) : (k - 1) % (stride + 1) = 0 => scan[k] = 0

DecodePngBytes(buf) ==
  IF Len(buf) < 8 \/ SubSeq(buf, 1, 8) # <<137, 80, 78, 71, 13, 10, 26, 10>>
  THEN Undecodable
  ELSE LET cs == PngChunks(buf, 9)
       IN IF \/ Len(cs) # 3
             \/ \E k \in 1..Len(cs) : ~cs[k].crcOk
             \/ cs[1].type # <<73, 72, 68, 82>> \/ Len(cs[1].data) # 13
             \/ cs[2].type # <<73, 68, 65, 84>>
             \/ cs[3].type # <<73, 69, 78, 68>> \/ cs[3].data # <<>>
          THEN Undecodable
          ELSE LET w == WordValue(SubSeq(cs[1].data, 1, 4))
                   h == WordValue(SubSeq(cs[1].data, 5, 8))
                   scan == Inflate(cs[2].data)
               IN IF \/ w <= 0 \/ h <= 0
                     \/ SubSeq(cs[1].data, 9, 13) # <<8, 6, 0, 0, 0>>
                     \/ ~scan.ok
                     \/ Len(scan.data) # ((4 * w) + 1) * h
                     \/ ~FilterNone(scan.data, 4 * w)
                  THEN Undecodable
                  ELSE [ok |-> TRUE, width |-> w, height |-> h,
                        pixels |-> Unfilter(scan.data, 4 * w, 1)]

DecodePng(s) == DecodePngBytes(fromBase64(s))

\* --- C14 ---

\* C14: the encoder returns PNG bytes only if width > 0, height > 0 and the
\* buffer has at least width * height bytes: otherwise it fails with an
\* error.
C14_BadInputFails ==
  encPc = "returned" =>
    /\ img.width > 0
    /\ img.height > 0
    /\ Len(img.data) >= img.width * img.height

\* --- C17 ---

\* C17: for a positive width and height and a buffer of width * height * 4
\* bytes, a PNG decoder reads from the string the encoder returns the
\* width, the height and exactly the bytes of the buffer as RGBA pixels.
C17_RoundTrip ==
  (/\ encPc = "returned"
   /\ img.width > 0 /\ img.height > 0
   /\ Len(img.data) = img.width * img.height * 4) =>
    DecodePng(pngBase64) =
      [ok |-> TRUE, width |-> img.width, height |-> img.height,
       pixels |-> img.data]

\* an image of one by two pixels of eight different bytes was encoded and
\* decodes to those bytes
C17_TwoPixelsBack ==
  /\ encPc = "returned"
  /\ img.width = 1 /\ img.height = 2
  /\ img.data = <<200, 237, 18, 55, 92, 129, 166, 203>>
  /\ DecodePng(pngBase64).ok
  /\ DecodePng(pngBase64).pixels = img.data

\* --- C18 ---

\* the component count as the spec gives it
InferredCount(im) ==
  IF Len(im.data) \div (im.width * im.height) >= 1
  THEN Len(im.data) \div (im.width * im.height) ELSE 1

\* the number of pixels the loops have written
PixelsWritten ==
  IF encPc = "pixel" THEN (y * img.width) + x
  ELSE IF encPc \in {"row", "returned"} /\ img.width > 0 /\ y > 0
  THEN y * img.width
  ELSE 0

\* the four bytes of raw for pixel at (counted from 0)
WrittenPixel(at) ==
  SubSeq(rawBuffer,
         ((at \div img.width) * ((4 * img.width) + 1)) + 1 + ((at % img.width) * 4) + 1,
         ((at \div img.width) * ((4 * img.width) + 1)) + 1 + ((at % img.width) * 4) + 4)

\* the pixel the spec gives for a component group that begins at position
\* at of the data (from 1)
MappedPixel(count, buf, at) ==
  CASE count = 1 -> <<buf[at], buf[at], buf[at], 255>>
    [] count = 3 -> <<buf[at], buf[at + 1], buf[at + 2], 255>>
    [] count = 4 -> <<buf[at], buf[at + 1], buf[at + 2], buf[at + 3]>>
    [] OTHER -> <<buf[at], buf[at], buf[at], 255>>

\* C18: for positive dimensions, with count = max(1, floor(length /
\* (width * height))), every pixel the encoder has written whose component
\* group lies in the buffer is: for count 1 the source byte three times and
\* alpha 255, for count 3 the three source bytes and alpha 255, for count 4
\* the four source bytes, for any other count the first byte of the group
\* three times and alpha 255.
C18_ComponentMapping ==
  (img.width > 0 /\ img.height > 0) =>
    \A at \in 0..(PixelsWritten - 1) :
      (at * InferredCount(img)) + 1 <= Len(img.data) =>
        WrittenPixel(at) =
          MappedPixel(InferredCount(img), img.data, (at * InferredCount(img)) + 1)

\* a two-pixel image of three components a pixel was encoded: the second
\* pixel is the fourth, fifth and sixth byte and alpha 255
C18_SecondPixelOfRGB ==
  /\ encPc = "returned"
  /\ img.width = 2 /\ img.height = 1
  /\ img.data = <<200, 237, 18, 55, 92, 129>>
  /\ InferredCount(img) = 3
  /\ SubSeq(rawBuffer, 6, 9) = <<55, 92, 129, 255>>

\* the call ends by throwing exactly when Buffer.alloc or writeUInt32BE is
\* given a negative number
EncThrowsWhen ==
  /\ encPc = "threw" => encodeThrows(img)
  /\ encPc = "returned" => ~encodeThrows(img)

\* ------------------------------------------------------------------------
\* Properties of parsePdfToBlocks (specification SpecPdf)
\* ------------------------------------------------------------------------

\* --- C15 ---

\* the images of a list that are large enough and that the encoder encodes
RECURSIVE Encodable(_)
Encodable(ims) ==
  IF ims = <<>> THEN <<>>
  ELSE (IF ims[1].width * ims[1].height >= MIN_IMAGE_AREA /\ ~encodeThrows(ims[1])
        THEN <<ims[1]>> ELSE <<>>) \o Encodable(Tail(ims))

Least(a, b) == IF a <= b THEN a ELSE b

\* the image blocks and the text block of the pages from k on, when before
\* them the document has given so many image blocks: of each page whose
\* extraction succeeds, the first encodable images up to the caps
RECURSIVE BlocksFromPage(_, _, _)
BlocksFromPage(doc, k, soFar) ==
  IF k > Len(doc) THEN <<>>
  ELSE LET taken == IF doc[k].fails THEN 0
                    ELSE Least(Len(Encodable(doc[k].images)),
                               Least(MAX_IMAGES_PER_PAGE, MAX_IMAGES_TOTAL - soFar))
       IN [n \in 1..taken |-> PageImageBlock(k - 1, Encodable(doc[k].images)[n])]
            \o <<PageTextBlock(k - 1, doc[k].text)>>
            \o BlocksFromPage(doc, k + 1, soFar + taken)

\* C15: parsePdfToBlocks returns, for every page, its text block, and before
\* it the image blocks of the first images of the page that are large
\* enough and that the encoder encodes, up to three a page and forty in all:
\* an image the encoder fails on gives no block and takes no place under
\* either cap, and the other images and the later pages are not affected.
C15_FailedImageOnlySkipped ==
  pdfPc = "returned" => pdfBlocks = BlocksFromPage(pdf, 1, 0)

\* a page whose first image the encoder fails on and which has three large
\* images after it was converted: the blocks are the three images and the
\* text
C15_ThreeImagesAfterFailure ==
  /\ pdfPc = "returned"
  /\ pdf = <<PdfPage(<<BadImage, LargeImage, LargeImage, LargeImage>>, FALSE)>>
  /\ Len(pdfBlocks) = 4
  /\ \A k \in 1..3 : pdfBlocks[k].kind = "image"
  /\ pdfBlocks[4].kind = "text"
  /\ totalImages = 3

\* --- C19 ---

\* a text with each of its characters &, < and > replaced by its entity
RECURSIVE EscapedOnce(_)
EscapedOnce(txt) ==
  IF txt = <<>> THEN <<>>
  ELSE (CASE txt[1] = "&" -> Str("&amp;")
          [] txt[1] = "<" -> Str("&lt;")
          [] txt[1] = ">" -> Str("&gt;")
          [] OTHER -> <<txt[1]>>) \o EscapedOnce(Tail(txt))

\* the fragments the step about to be taken may emit: what has been
\* accumulated, the line at hand, and the two joined
FragmentTexts ==
  {current}
    \cup (IF tpc = "lines" /\ lineIndex <= Len(cleanLines)
          THEN {cleanLines[lineIndex], Accumulate(current, cleanLines[lineIndex])}
          ELSE {})

\* the blocks of those fragments as narration, as dialogue, and the block of
\* the line at hand as a scene break
MarkedUp ==
  {[type |-> "paragraph",
    html |-> Str("<p>") \o EscapedOnce(Trim(t)) \o Str("</p>")] : t \in FragmentTexts}
    \cup {[type |-> "dialogue",
           html |-> Str("<blockquote>") \o EscapedOnce(Trim(t)) \o Str("</blockquote>")] :
            t \in FragmentTexts}
    \cup (IF tpc = "lines" /\ lineIndex <= Len(cleanLines)
          THEN {[type |-> "paragraph",
                 html |-> Str("<p class=\"scene-break\">")
                            \o EscapedOnce(Trim(CollapseSpace(cleanLines[lineIndex])))
                            \o Str("</p>")]}
          ELSE {})

\* the markup between the opening tag and the closing tag
Body(html) ==
  IF StartsWith(html, Str("<blockquote>"))
  THEN SubSeq(html, 13, Len(html) - 13)
  ELSE IF StartsWith(html, Str("<p class=\"scene-break\">"))
  THEN SubSeq(html, 24, Len(html) - 4)
  ELSE SubSeq(html, 4, Len(html) - 4)

\* C19: every block a step of the segmenter emits is a fragment at hand with
\* each &, < and > replaced once by &amp;, &lt; and &gt;, wrapped in
\* <p>...</p> with type paragraph, in <blockquote>...</blockquote> with type
\* dialogue, or, for a scene break, in <p class="scene-break">...</p>; and
\* between the tags there is no < and no >.
C19_EscapedAndWrapped ==
  [][\A k \in (Len(blocks) + 1)..Len(blocks') :
       /\ blocks'[k] \in MarkedUp
       /\ ~Contains(Body(blocks'[k].html), <<"<">>)
       /\ ~Contains(Body(blocks'[k].html), <<">">>)]_vars

\* the dialogue with an entity and a tag in it was segmented: one quotation,
\* the ampersand of the entity escaped once
C19_DialogueWithMarkup ==
  /\ tpc = "done"
  /\ text = MarkupDialogue
  /\ Len(blocks) = 1
  /\ blocks[1].type = "dialogue"
  /\ blocks[1].html =
       Str("<blockquote>") \o <<LDQUO>> \o Str("&amp;lt; &lt;A&gt; &amp;.")
         \o <<RDQUO>> \o Str("</blockquote>")

\* ------------------------------------------------------------------------
\* Properties of detectChapter (specification SpecMatch)
\* ------------------------------------------------------------------------

\* --- C20 ---

\* the chapter patterns configured for the matcher's language
ChapterPatterns == config(matcherLanguage).chapter

\* the patterns that match the trimmed line, by position
Matching ==
  {k \in 1..Len(ChapterPatterns) : ReTest(ChapterPatterns[k], Trim(chapterLine), TRUE)}

FirstMatching == CHOOSE k \in Matching : \A j \in Matching : k <= j

\* capture group g of the first pattern that matches
FirstCapture(g) ==
  ReGroup(ReMatch(ChapterPatterns[FirstMatching], Trim(chapterLine), TRUE),
          Trim(chapterLine), g)

AllDigits(s) == s # <<>> /\ \A k \in 1..Len(s) : s[k] \in Digits

\* C20: detectChapter returns none for a blank line and for a line that no
\* chapter pattern of the language matches; otherwise, of the first pattern
\* that matches, the number of the first capture group when the group is
\* made of digits alone and no number when it is not, and as title the
\* trimmed second capture group, empty when the pattern has none.
C20_DetectChapterContract ==
  matched =>
    IF Trim(chapterLine) = <<>> \/ Matching = {}
    THEN ~chapter.found
    ELSE /\ chapter.found
         /\ chapter.title = Trim(FirstCapture(2))
         /\ chapter.number.has = AllDigits(Trim(FirstCapture(1)))
         /\ chapter.number.has =>
              chapter.number.val = DigitsToNumber(Trim(FirstCapture(1)))

\* the line "PART12Go" was given to an English matcher: only the third
\* pattern matches, the number is 12 and the title Go
C20_PartTwelveGo ==
  /\ matched
  /\ matcherLanguage = "en"
  /\ chapterLine = Str("PART12Go")
  /\ Matching = {3}
  /\ chapter.found
  /\ chapter.number = SomeNumber(12)
  /\ chapter.title = Str("Go")


\* ------------------------------------------------------------------------
\* Properties of detectSection (specification SpecSection)
\* ------------------------------------------------------------------------

\* --- C21 ---

\* the trimmed line starts with an opening quotation glyph or ends with a
\* comma
OpensOrTrails(l) ==
  LET t == Trim(l)
  IN t # <<>> /\ (t[1] \in {DQ, LDQUO, LSQUO, LAQUO, LCORNER, LWCORNER}
                  \/ t[Len(t)] = ",")

AtChapterHeading ==
  /\ variant = "storage"
  /\ pc = "lines" /\ i <= Len(lines)
  /\ lines[i] # <<>>
  /\ ~isPageLine(lines[i])
  /\ detectChapter(options.language, lines[i]).found

\* --- C22 ---

\* a blank line or a page-footer line
BlankOrFooter(l) == Trim(l) = <<>> \/ isPageLine(l)

\* how many blank and footer lines follow position at without a break
RECURSIVE SkippedAfter(_, _)
SkippedAfter(ls, at) ==
  IF at + 1 <= Len(ls) /\ BlankOrFooter(ls[at + 1])
  THEN 1 + SkippedAfter(ls, at + 1)
  ELSE 0

\* the heading has a title on its line, or does not end with a separator
InlineOrBare(l) ==
  \/ detectChapter(options.language, l).title # <<>>
  \/ l[Len(l)] \notin {":", "-", ENDASH}

\* what the claim calls title-shaped
TitleShaped(l) == isLikelyChapterTitleLine(l) \/ isHeaderContinuation(l)

\* the first line after the heading that is neither blank nor a footer
FirstAfter == i + SkippedAfter(lines, i) + 1

\* the step takes the heading line alone: the title is the line, the loop
\* goes on at the next line and no text is handed back
OnlyTheHeading ==
  /\ i' = i + 1
  /\ currentTitle' = lines[i]
  /\ pendingText' = <<>>

\* C22: a chapter heading with a title on its line, or without a separator
\* at its end, takes the heading line alone.  Any other heading takes the
\* heading line alone when no line follows the blank and footer lines
\* after it, or when the first such line looks like opening prose or is not
\* title-shaped; otherwise it takes, past the blank and footer lines, that
\* one line and at most one more line, which is then heading-shaped.
C22_HeadingLookahead ==
  [][AtChapterHeading =>
       IF InlineOrBare(lines[i]) THEN OnlyTheHeading
       ELSE IF \/ FirstAfter > Len(lines)
               \/ looksLikeOpeningContent(lines[FirstAfter])
               \/ ~TitleShaped(lines[FirstAfter])
       THEN OnlyTheHeading
       ELSE \/ i' = FirstAfter + 1
            \/ /\ i' = FirstAfter + 2
               /\ FirstAfter + 1 <= Len(lines)
               /\ ~BlankOrFooter(lines[FirstAfter + 1])
               /\ isHeaderContinuation(lines[FirstAfter + 1])]_vars

\* after a paragraph, the heading "Chapter 7:" has taken the title two
\* lines below it, past a blank line and a footer, and one continuation
\* line; the loop is at the second continuation line
C22_TitleAndContinuationTaken ==
  /\ variant = "storage"
  /\ pc = "lines"
  /\ Len(lines) = 8 /\ lines[2] = Str("Chapter 7:") /\ lines[4] = Str("Page 7")
  /\ i = 7
  /\ currentTitle = Str("Chapter 7: The Title PART TWO")
  /\ pendingText = <<>>


\* --- C23 ---

\* the words of a text
TokensOf(s) == IF Trim(s) = <<>> THEN <<>> ELSE SplitWords(Trim(s))

\* the positions in a line of six words or more where a run of three words
\* in capitals begins that has a lower-case letter in or after it, at least
\* six characters before it and at least twenty from it on
SplitPoints(tokens) ==
  IF Len(tokens) < 6 THEN {}
  ELSE {at \in 1..(Len(tokens) - 2) :
          /\ \A k \in at..(at + 2) : isAllCapsWord(tokens[k])
          /\ \E k \in at..Len(tokens) : \E c \in 1..Len(tokens[k]) :
               tokens[k][c] \in AsciiLower
          /\ Len(JoinWith(SubSeq(tokens, 1, at - 1), <<SP>>)) >= 6
          /\ Len(JoinWith(SubSeq(tokens, at, Len(tokens)), <<SP>>)) >= 20}

\* where the words of the line are cut: at the first split point, or after
\* the last word
CutOf(tokens) ==
  IF SplitPoints(tokens) = {} THEN Len(tokens) + 1
  ELSE CHOOSE at \in SplitPoints(tokens) : \A m \in SplitPoints(tokens) : at <= m

\* the words of the lines the heading step takes after the heading line
TakenTokens ==
  IF i' <= FirstAfter THEN <<>>
  ELSE IF i' = FirstAfter + 1 THEN TokensOf(lines[FirstAfter])
  ELSE TokensOf(lines[FirstAfter]) \o TokensOf(lines[FirstAfter + 1])

\* the chapter open before the step is closed by it: the text that was
\* pending is segmented into it, and it is pushed unless it has no block
PreviousChapterClosed ==
  LET segs == Segmented(options.language, pendingText)
      total == Len(currentBlocks) + Len(segs)
  IN /\ currentBlocks' = <<>>
     /\ IF total = 0 THEN chapters' = chapters
        ELSE /\ Len(chapters') = Len(chapters) + 1
             /\ SubSeq(chapters', 1, Len(chapters)) = chapters
             /\ Len(Last(chapters').blocks) = total
             /\ IsPrefix(currentBlocks, Last(chapters').blocks)
             /\ \A k \in DOMAIN segs :
                  /\ Last(chapters').blocks[Len(currentBlocks) + k].type = segs[k].type
                  /\ Last(chapters').blocks[Len(currentBlocks) + k].html = segs[k].html

\* C23: at a chapter heading the words of the lines taken after the heading
\* line are cut at the first split point: the words before it follow the
\* heading line in the new title, the words from it on, joined by spaces,
\* are all the text pending after the step, and nothing is pending when
\* there is no split point; the text pending before the step is not in it
\* but in the blocks of the chapter the step has closed.
C23_SplitTitleAndRemainder ==
  [][AtChapterHeading =>
       /\ TokensOf(currentTitle') =
            TokensOf(lines[i]) \o SubSeq(TakenTokens, 1, CutOf(TakenTokens) - 1)
       /\ pendingText' =
            JoinWith(SubSeq(TakenTokens, CutOf(TakenTokens), Len(TakenTokens)), <<SP>>)
       /\ PreviousChapterClosed]_vars

\* the heading "Chapter 7:" has taken the mixed line below it: the title
\* ends with The Diary, the run in capitals and what follows it are pending,
\* and the paragraph before the heading is in the chapter pushed
C23_RemainderHandedBack ==
  /\ variant = "storage"
  /\ pc = "lines"
  /\ Len(lines) = 6 /\ lines[5] = MixedLine /\ i = 6
  /\ currentTitle = Str("Chapter 7: The Diary")
  /\ pendingText = Str("IT WAS THE morning after")
  /\ Len(chapters) = 1
  /\ chapters[1].blocks[1].html = Str("<p>It ran.</p>")
  /\ currentBlocks = <<>>


\* --- C24 ---

\* the line is neither blank nor a footer and detectChapter matches on it
ChapterLine(l) ==
  /\ l # <<>>
  /\ ~isPageLine(l)
  /\ detectChapter(options.language, l).found

\* C24: every line that the loop over the lines passes, that is neither
\* blank nor a footer and on which detectChapter matches, is the line a step
\* begins at, and that step is a chapter boundary: the text pending is
\* flushed into the chapter that was open, which is pushed unless it has no
\* block, and the chapter that begins has the number of that line and a
\* title made from it.
C24_EveryChapterLineIsABoundary ==
  [][(pc = "lines" /\ i <= Len(lines)) =>
       \A k \in i..(i' - 1) :
          ChapterLine(lines[k]) =>
            /\ k = i
            /\ PreviousChapterClosed
            /\ currentNumber' = detectChapter(options.language, lines[k]).number
            /\ currentTitle' # <<>>
            /\ Contains(lines[k], detectChapter(options.language, lines[k]).title)]_vars


\* ------------------------------------------------------------------------
\* Properties of the segmenter's loop (specification SpecTp)
\* ------------------------------------------------------------------------

\* --- C25 ---

\* the loop over the lines is at a dialogue-start line
AtDialogueStart ==
  /\ tpc = "lines" /\ lineIndex <= Len(cleanLines)
  /\ ~isSceneBreak(cleanLines[lineIndex])
  /\ isDialogueStart(tpLanguage, cleanLines[lineIndex])

\* the line without the closing quotes at its end
RECURSIVE WithoutClosers(_)
WithoutClosers(l) ==
  IF l # <<>> /\ l[Len(l)] \in {RDQUO, DQ, APOS, RAQUO, RCORNER, RWCORNER}
  THEN WithoutClosers(SubSeq(l, 1, Len(l) - 1))
  ELSE l

\* the line ends in terminal punctuation, closing quotes apart
EndsSentence(l) ==
  /\ WithoutClosers(Trim(l)) # <<>>
  /\ Last(WithoutClosers(Trim(l))) \in {".", "!", "?", CJKSTOP, FWEXCL, FWQUEST}

\* the blocks once a non-empty accumulator is flushed
BlocksFlushed ==
  IF current = <<>> THEN blocks
  ELSE Append(blocks,
              IF inDialogue
              THEN [type |-> "dialogue", html |-> DialogueHtml(current)]
              ELSE [type |-> "paragraph", html |-> ParagraphHtml(current)])

\* C25: at a dialogue-start line a non-empty accumulator is flushed, as a
\* dialogue block if inDialogue was set and as a paragraph if not; then,
\* when the line ends in terminal punctuation (closing quotes apart), the
\* line is emitted at once as a dialogue block of its own and the state is
\* reset, and otherwise the line alone is the new accumulator and
\* inDialogue is set.  So the line shares no block with the lines before
\* it.
C25_DialogueStartLine ==
  [][AtDialogueStart =>
       IF EndsSentence(cleanLines[lineIndex])
       THEN /\ blocks' = Append(BlocksFlushed,
                                [type |-> "dialogue",
                                 html |-> DialogueHtml(cleanLines[lineIndex])])
            /\ current' = <<>>
            /\ inDialogue' = FALSE
       ELSE /\ blocks' = BlocksFlushed
            /\ current' = cleanLines[lineIndex]
            /\ inDialogue' = TRUE]_vars

\* of the text “A“A the second quotation line was just processed: the first
\* is a dialogue block, the second alone is accumulated
C25_SecondQuotationApart ==
  /\ text = <<LDQUO, "A", LDQUO, "A">>
  /\ tpc = "lines" /\ lineIndex = 3
  /\ blocks = <<[type |-> "dialogue", html |-> Str("<blockquote>") \o <<LDQUO, "A">>
                                                  \o Str("</blockquote>")]>>
  /\ current = <<LDQUO, "A">>
  /\ inDialogue


\* --- C26 ---

AtGroupLine == tpc = "lines" /\ lineIndex <= Len(cleanLines)
AtGroupEnd == tpc = "lines" /\ lineIndex > Len(cleanLines)

\* the blocks pushed by the step
NewBlocks == SubSeq(blocks', Len(blocks) + 1, Len(blocks'))

\* the lines of a fragment joined by single spaces
Joined(fragment, l) ==
  IF fragment = <<>> THEN l ELSE fragment \o <<" ">> \o l

FragmentBlock(fragment, dialogue) ==
  IF dialogue
  THEN [type |-> "dialogue",
        html |-> Str("<blockquote>") \o escapeHtml(Trim(fragment))
                   \o Str("</blockquote>")]
  ELSE [type |-> "paragraph",
        html |-> Str("<p>") \o escapeHtml(Trim(fragment)) \o Str("</p>")]

\* the line of the step goes to exactly one place: a scene break becomes
\* its own block after the accumulator is flushed; any other line is joined
\* to the accumulator, or begins a new one after the old one is flushed
\* whole, and an emission takes the whole accumulator and empties it
LineConserved ==
  LET l == cleanLines[lineIndex]
  IN /\ Len(blocks') >= Len(blocks)
     /\ SubSeq(blocks', 1, Len(blocks)) = blocks
     /\ lineIndex' = lineIndex + 1
     /\ cleanLines' = cleanLines
     /\ IF isSceneBreak(l)
        THEN /\ current' = <<>>
             /\ NewBlocks =
                  (IF current # <<>>
                   THEN <<FragmentBlock(current, inDialogue)>> ELSE <<>>)
                  \o <<[type |-> "paragraph", html |-> SceneBreakHtml(l)]>>
        ELSE \E flush \in BOOLEAN, emit \in BOOLEAN, dialogue \in BOOLEAN :
               LET fragment == IF flush THEN l ELSE Joined(current, l)
               IN /\ flush => current # <<>>
                  /\ NewBlocks =
                       (IF flush
                        THEN <<FragmentBlock(current, inDialogue)>> ELSE <<>>)
                       \o (IF emit
                           THEN <<FragmentBlock(fragment, dialogue)>> ELSE <<>>)
                  /\ current' = IF emit THEN <<>> ELSE fragment

\* the flush at the end of the group
TrailingFlushed ==
  blocks' = IF current # <<>>
            THEN Append(blocks, FragmentBlock(current, inDialogue))
            ELSE blocks

EmptyFragments ==
  {Str("<p></p>"), Str("<blockquote></blockquote>"),
   Str("<p class=\"scene-break\"></p>")}

\* C26: within a paragraph group nothing is lost and nothing is
\* duplicated: every step of the loop puts its line in exactly one
\* fragment, fragments are emitted whole, in line order, their lines joined
\* by spaces; no emitted fragment is empty; what is left in the accumulator
\* at the end of the group is flushed with the type given by inDialogue;
\* and inDialogue is set only while the accumulator is non-empty.
C26_NothingLostNothingDuplicated ==
  [][/\ AtGroupLine => LineConserved
     /\ AtGroupEnd => TrailingFlushed
     /\ \A k \in 1..Len(blocks') : blocks'[k].html \notin EmptyFragments
     /\ tpc' = "lines" /\ inDialogue' => current' # <<>>]_vars

\* the lines A and A of one group, neither ending a sentence, were joined
\* and flushed as one paragraph at the end of the group
C26_TwoLinesJoinedAndFlushed ==
  /\ tpc = "paragraphs"
  /\ cleanLines = <<Str("A"), Str("A")>>
  /\ ~inDialogue
  /\ blocks = <<[type |-> "paragraph", html |-> Str("<p>A A</p>")]>>


\* --- C27 ---

\* the page-footer lines among the lines of the pages
FooterVocabulary ==
  {HeadingVocabulary[k] : k \in {n \in 1..Len(HeadingVocabulary) :
                                   isPageLine(HeadingVocabulary[n])}}

\* the segmenter rejects every one of them
FootersRejected == \A f \in FooterVocabulary : ~isValidLine(f)

\* the titles and the block texts assembled so far
AssembledTexts ==
  {currentTitle}
    \cup {currentBlocks[b].html : b \in 1..Len(currentBlocks)}
    \cup {chapters[c].title : c \in 1..Len(chapters)}
    \cup UNION {{chapters[c].blocks[b].html : b \in 1..Len(chapters[c].blocks)} :
                  c \in 1..Len(chapters)}

\* no footer line of the input occurs in a title or in a block
NoFooterText ==
  \A f \in FooterVocabulary : \A s \in AssembledTexts : ~Contains(s, f)

\* the scan is at a footer line
AtFooterLine == pc = "lines" /\ i <= Len(lines) /\ isPageLine(lines[i])

\* the step neither starts nor ends a chapter
NoBoundary ==
  /\ chapters' = chapters
  /\ chapterCount' = chapterCount
  /\ currentTitle' = currentTitle
  /\ currentNumber' = currentNumber
  /\ currentBlocks' = currentBlocks

\* C27: no page-footer line ever contributes text to a chapter title or to
\* a block; the segmenter rejects it; and a step of the scan at a footer
\* line neither starts nor ends a chapter.
C27_FooterNeverContributes ==
  [][/\ NoFooterText'
     /\ FootersRejected
     /\ AtFooterLine => NoBoundary]_vars

\* the same of the copy of storage.ts alone, where moreover the scan skips
\* the footer line
FooterSkippedByStorageCopy ==
  [][variant = "storage" =>
       /\ NoFooterText'
       /\ AtFooterLine => /\ NoBoundary
                          /\ pendingText' = pendingText
                          /\ i' = i + 1]_vars

\* the copy of converter.ts took the footer PAGE 7 into the title of the
\* section PART TWO
FooterInSectionTitle ==
  /\ variant = "converter"
  /\ pc = "done"
  /\ Len(chapters) = 1
  /\ chapters[1].title = Str("PART TWO PAGE 7")
  /\ Len(chapters[1].blocks) = 1
  /\ chapters[1].blocks[1].html = Str("<p>It ran.</p>")


\* ------------------------------------------------------------------------
\* Properties of the explicit tier of detectSection (specification
\* SpecSection)
\* ------------------------------------------------------------------------

\* --- C28 ---

\* the language whose configuration is used
ConfiguredLanguage(lang) == IF lang \in {"fr", "en", "ja"} THEN lang ELSE "en"

\* the section keywords looked for at the start of the line
StartKeywords ==
  [en |-> {Word("prologue"), Word("epilogue"), AuthorsForeword,
           Word("afterword"), Word("intermission")},
   fr |-> {Word("prologue"), EpilogueFr, AvantPropos, Word("postface")},
   ja |-> {KataPrologue, KataEpilogue}]

\* those also looked for as a whole word anywhere in the line
WordKeywords ==
  [en |-> StartKeywords.en,
   fr |-> {Word("prologue"), EpilogueFr},
   ja |-> {}]

\* those also looked for anywhere in the line, word or not
AnywhereKeywords == [en |-> {}, fr |-> {}, ja |-> StartKeywords.ja]

\* the keyword is written, in any case, from position k of t on n glyphs
KeywordSpan(kw, t, k, n) ==
  /\ k + n - 1 <= Len(t)
  /\ ReTest(kw \o <<Eol>>, SubSeq(t, k, k + n - 1), TRUE)

\* \b: of the glyphs before and at position k exactly one is a word glyph
Boundary(t, k) ==
  (k > 1 /\ t[k - 1] \in WordChars) # (k <= Len(t) /\ t[k] \in WordChars)

KeywordAtStart(lang, t) ==
  \E kw \in StartKeywords[lang] : \E n \in 1..Len(t) : KeywordSpan(kw, t, 1, n)

KeywordAsWord(lang, t) ==
  \E kw \in WordKeywords[lang] : \E k \in 1..Len(t), n \in 1..Len(t) :
    /\ k + n - 1 <= Len(t)
    /\ Boundary(t, k)
    /\ Boundary(t, k + n)
    /\ KeywordSpan(kw, t, k, n)

KeywordAnywhere(lang, t) ==
  \E kw \in AnywhereKeywords[lang] : \E k \in 1..Len(t), n \in 1..Len(t) :
    KeywordSpan(kw, t, k, n)

\* a call of detectSection returns, on a line that reaches the explicit tier
ExplicitTierReached ==
  /\ sectionPc = "called" /\ sectionPc' = "returned"
  /\ Trim(sectionLine) # <<>>
  /\ ~OpensOrTrails(sectionLine)

\* the result is that of the two heuristic tiers
HeuristicResult(t) ==
  /\ section'.found = (shortHeader(t) \/ newswireHeader(t))
  /\ section'.found => section'.title = t

ScanlineByte(at, k) == (at * ((4 * img.width) + 1)) + k + 1

\* the scanline stream is height rows of width * 4 + 1 bytes, each begun by
\* the filter type 0, and pixel (col, row) is at bytes 1 + 4 col .. 4 + 4 col
\* of its row
ScanlineLayout ==
  /\ Len(rawBuffer) = img.height * ((4 * img.width) + 1)
  /\ \A row \in 0..(img.height - 1) :
       /\ rawBuffer[ScanlineByte(row, 0)] = 0
       /\ \A col \in 0..(img.width - 1) :
            LET at == (row * img.width) + col
                group == (at * InferredCount(img)) + 1
            IN group <= Len(img.data) =>
                 SubSeq(rawBuffer, ScanlineByte(row, 1 + (4 * col)),
                        ScanlineByte(row, 4 + (4 * col)))
                   = MappedPixel(InferredCount(img), img.data, group)

\* the bytes are the signature, then the chunks IHDR (bit depth 8, colour
\* type 6, compression, filter and interlace 0), IDAT and IEND, and the
\* IDAT chunk inflates to the scanline stream
ChunkLayout(png) ==
  /\ Len(png) >= 8
  /\ SubSeq(png, 1, 8) = <<137, 80, 78, 71, 13, 10, 26, 10>>
  /\ LET cs == PngChunks(png, 9)
     IN /\ Len(cs) = 3
        /\ cs[1].type = <<73, 72, 68, 82>>
        /\ Len(cs[1].data) = 13
        /\ SubSeq(cs[1].data, 9, 13) = <<8, 6, 0, 0, 0>>
        /\ cs[2].type = <<73, 68, 65, 84>>
        /\ Inflate(cs[2].data) = [ok |-> TRUE, data |-> rawBuffer]
        /\ cs[3].type = <<73, 69, 78, 68>>
        /\ cs[3].data = <<>>

\* C29: when the encoder returns, the scanline stream it compressed has
\* exactly height rows of width * 4 + 1 bytes, byte 0 of every row is the
\* filter type 0 and bytes 1 + 4x .. 4 + 4x of row y are R, G, B, A of pixel
\* (x, y); and the PNG is the signature, one IHDR (bit depth 8, colour type
\* 6, compression, filter, interlace 0), one IDAT and one IEND chunk, in
\* that order.
C29_ScanlinesAndChunks ==
  encPc = "returned" =>
    /\ ScanlineLayout
    /\ ChunkLayout(fromBase64(pngBase64))

\* an image of two by two pixels of four components was encoded: two rows
\* of nine bytes
C29_TwoRowsOfNineBytes ==
  /\ encPc = "returned"
  /\ img.width = 2 /\ img.height = 2
  /\ img.data = Ramp(16, 37, 200)
  /\ rawBuffer = <<0>> \o SubSeq(img.data, 1, 8) \o <<0>> \o SubSeq(img.data, 9, 16)
  /\ Len(PngChunks(fromBase64(pngBase64), 9)) = 3


\* ------------------------------------------------------------------------
\* Properties of the caps of parsePdfToBlocks (specification SpecPdf)
\* ------------------------------------------------------------------------

\* --- C30 ---

\* the positions of the image blocks, of those of one page, and of the text
\* blocks of one page
ImagePositions == {b \in 1..Len(pdfBlocks) : pdfBlocks[b].kind = "image"}
ImagePositionsOf(pg) == {b \in ImagePositions : pdfBlocks[b].pageIndex = pg}
TextPositionsOf(pg) ==
  {b \in 1..Len(pdfBlocks) : pdfBlocks[b].kind = "text" /\ pdfBlocks[b].pageIndex = pg}

\* the image a block was encoded from
SourceImage(blk) == blk.dataUrl[Len(blk.dataUrl)].pngOfImage

\* the pages whose text block has been pushed
PagesBegun ==
  IF pdfPc = "images" THEN 0..pageIndex ELSE 0..(pageIndex - 1)

\* C30: whatever the document, parsePdfToBlocks emits at most 40 image
\* blocks and at most 3 of one page, none of an image of less than 200000
\* pixels, and exactly one text block for each page it has come to, images
\* or not; the images it skipped, too small or not encoded, count under
\* neither cap: the counters are the numbers of image blocks emitted.
C30_ImageCaps ==
  /\ Cardinality(ImagePositions) <= 40
  /\ \A pg \in 0..(Len(pdf) - 1) :
       /\ Cardinality(ImagePositionsOf(pg)) <= 3
       /\ Cardinality(TextPositionsOf(pg)) = IF pg \in PagesBegun THEN 1 ELSE 0
  /\ \A b \in ImagePositions :
       SourceImage(pdfBlocks[b]).width * SourceImage(pdfBlocks[b]).height >= 200000
  /\ totalImages = Cardinality(ImagePositions)
  /\ pdfPc = "images" => imagesOnPage = Cardinality(ImagePositionsOf(pageIndex))

\* the document of fifteen pages, each with an image that is not encoded
\* and three that are, was converted: forty image blocks, three of the
\* first page, one of the fourteenth, none of the fifteenth, and fifteen
\* text blocks
C30_FortyImagesFifteenTexts ==
  /\ pdfPc = "returned"
  /\ pdf = LongPdf
  /\ Cardinality(ImagePositions) = 40
  /\ Cardinality(ImagePositionsOf(0)) = 3
  /\ Cardinality(ImagePositionsOf(13)) = 1
  /\ Cardinality(ImagePositionsOf(14)) = 0
  /\ \A pg \in 0..14 : Cardinality(TextPositionsOf(pg)) = 1


\* ------------------------------------------------------------------------
\* Properties of the order of the blocks parsePdfToBlocks returns
\* (specification SpecPdf)
\* ------------------------------------------------------------------------

\* --- C31 ---

\* s is t with some elements left out
RECURSIVE IsSubsequence(_, _)
IsSubsequence(s, t) ==
  IF s = <<>> THEN TRUE
  ELSE IF t = <<>> THEN FALSE
  ELSE IF s[1] = t[1] THEN IsSubsequence(Tail(s), Tail(t))
  ELSE IsSubsequence(s, Tail(t))

\* the images the image blocks of a page were encoded from, in the order of
\* the blocks
RECURSIVE SourcesFrom(_, _)
SourcesFrom(pg, b) ==
  IF b > Len(pdfBlocks) THEN <<>>
  ELSE (IF pdfBlocks[b].kind = "image" /\ pdfBlocks[b].pageIndex = pg
        THEN <<SourceImage(pdfBlocks[b])>> ELSE <<>>) \o SourcesFrom(pg, b + 1)

\* C31: the sequence parsePdfToBlocks returns is ascending in (pageIndex,
\* order): the pages are in page order, the image blocks of a page (order
\* 0) stand before its text block (order 1), and the images of a page are
\* in the order in which they were extracted.
C31_SortedByPageAndOrder ==
  pdfPc = "returned" =>
    /\ \A a \in 1..Len(pdfBlocks), b \in 1..Len(pdfBlocks) :
         a < b =>
           \/ pdfBlocks[a].pageIndex < pdfBlocks[b].pageIndex
           \/ /\ pdfBlocks[a].pageIndex = pdfBlocks[b].pageIndex
              /\ pdfBlocks[a].order <= pdfBlocks[b].order
    /\ \A b \in 1..Len(pdfBlocks) :
         pdfBlocks[b].order = IF pdfBlocks[b].kind = "image" THEN 0 ELSE 1
    /\ \A pg \in 0..(Len(pdf) - 1) :
         IsSubsequence(SourcesFrom(pg, 1), pdf[pg + 1].images)

\* two pages were converted, the first with a wide and then a large image:
\* wide image, large image, text of the first page, then the image and the
\* text of the second
C31_TwoPagesImagesFirst ==
  /\ pdfPc = "returned"
  /\ Len(pdf) = 2
  /\ pdf[1].images = <<WideImage, SmallImage, LargeImage>>
  /\ Len(pdfBlocks) = 5
  /\ SourcesFrom(0, 1) = <<WideImage, LargeImage>>
  /\ pdfBlocks[3] = PageTextBlock(0, pdf[1].text)
  /\ pdfBlocks[4].kind = "image" /\ pdfBlocks[4].pageIndex = 1
  /\ pdfBlocks[5].kind = "text" /\ pdfBlocks[5].pageIndex = 1


\* ------------------------------------------------------------------------
\* Properties of convertBlocksToNovel on two pages (specification
\* SpecPages)
\* ------------------------------------------------------------------------

\* --- C32 ---

\* the scan passes from a text block to the next raw block, or enters a
\* text block
AtBlockBoundary ==
  \/ pc = "lines" /\ i > Len(lines)
  \/ pc = "block" /\ blockIndex <= Len(rawBlocks)
       /\ rawBlocks[blockIndex].kind = "text"

\* the non-blank lines of the text blocks, in order
RECURSIVE BodyOf(_)
BodyOf(bs) ==
  IF bs = <<>> THEN <<>>
  ELSE SelectSeq(TrimAll(SplitOn(bs[1].text, NL)), LAMBDA l : l # <<>>)
         \o BodyOf(Tail(bs))

\* the input is text blocks only, and none of their lines is a heading or
\* a footer
OnlyBodyText ==
  /\ \A b \in 1..Len(rawBlocks) : rawBlocks[b].kind = "text"
  /\ \A k \in 1..Len(BodyOf(rawBlocks)) :
       Branch(variant, options.language, BodyOf(rawBlocks)[k]) = "body"

\* the type and the text of the blocks of a chapter
Rendered(bs) == [b \in 1..Len(bs) |-> [type |-> bs[b].type, html |-> bs[b].html]]

\* C32: the pending text is carried from one raw block to the next: the
\* step that leaves a text block and the step that enters one change
\* neither the pending text nor the blocks nor the chapters; and the body
\* lines of consecutive text blocks without heading or image between them
\* are segmented as one span, as if they stood on one page.
C32_PendingTextAcrossBlocks ==
  [][/\ AtBlockBoundary =>
          UNCHANGED <<pendingText, currentBlocks, currentTitle, currentNumber,
                      chapterCount, chapters>>
     /\ (pc' = "done" /\ OnlyBodyText /\ BodyOf(rawBlocks) # <<>>) =>
          /\ Len(chapters') <= 1
          /\ processContent(options.language, JoinWith(BodyOf(rawBlocks), <<NL>>)) =
               IF chapters' = <<>> THEN <<>> ELSE Rendered(chapters'[1].blocks)]_vars

\* the sentence "It ran far." stood on two pages, "It ran" at the end of the
\* first and "far." at the start of the second: it is one paragraph
C32_SentenceOverTwoPages ==
  /\ pc = "done"
  /\ rawBlocks = <<TextRaw(0, <<Str("It ran")>>), TextRaw(1, <<Str("far.")>>)>>
  /\ Len(chapters) = 1
  /\ Len(chapters[1].blocks) = 1
  /\ chapters[1].blocks[1].type = "paragraph"
  /\ chapters[1].blocks[1].html = Str("<p>It ran far.</p>")


\* --- C33 ---

\* the input as one sequence of items: the lines of the text blocks and the
\* image blocks, in order
RECURSIVE ItemsOf(_)
ItemsOf(bs) ==
  IF bs = <<>> THEN <<>>
  ELSE (IF bs[1].kind = "text"
        THEN [k \in 1..Len(TrimAll(SplitOn(bs[1].text, NL))) |->
                [kind |-> "line", text |-> TrimAll(SplitOn(bs[1].text, NL))[k],
                 src |-> <<>>, alt |-> <<>>]]
        ELSE <<[kind |-> "image", text |-> <<>>, src |-> bs[1].dataUrl,
                alt |-> bs[1].alt]>>)
         \o ItemsOf(Tail(bs))

IsHeading(item) ==
  /\ item.kind = "line"
  /\ Branch(variant, options.language, item.text) \in {"chapter", "section"}

\* the items before the first heading
RECURSIVE BeforeHeading(_)
BeforeHeading(items) ==
  IF items = <<>> \/ IsHeading(items[1]) THEN <<>>
  ELSE <<items[1]>> \o BeforeHeading(Tail(items))

\* the blocks a run of body lines gives
SpanBlocks(ls) ==
  IF ls = <<>> THEN <<>>
  ELSE LET processed == processContent(options.language, JoinWith(ls, <<NL>>))
       IN [b \in 1..Len(processed) |->
             [type |-> processed[b].type, html |-> processed[b].html,
              src |-> <<>>, alt |-> <<>>]]

\* the blocks the items give: the lines between two images are one span
RECURSIVE BlocksOfItems(_, _)
BlocksOfItems(items, ls) ==
  IF items = <<>> THEN SpanBlocks(ls)
  ELSE IF items[1].kind = "image"
  THEN SpanBlocks(ls)
         \o <<[type |-> "image", html |-> <<>>, src |-> items[1].src,
               alt |-> items[1].alt]>>
         \o BlocksOfItems(Tail(items), <<>>)
  ELSE IF items[1].text = <<>> \/ Branch(variant, options.language, items[1].text) = "skip"
  THEN BlocksOfItems(Tail(items), ls)
  ELSE BlocksOfItems(Tail(items), Append(ls, items[1].text))

\* blocks without their ids
WithoutIds(bs) ==
  [b \in 1..Len(bs) |-> [type |-> bs[b].type, html |-> bs[b].html,
                         src |-> bs[b].src, alt |-> bs[b].alt]]

\* C33: what stands before the first chapter or section heading, or the
\* whole input when it has no heading, is not dropped: the text fragments
\* and the images of it are the blocks of the first chapter, whose title is
\* "Prologue", whose number is 1 and whose id is chapter-1.
C33_ContentBeforeFirstHeading ==
  [][pc' = "done" =>
       LET leading == BlocksOfItems(BeforeHeading(ItemsOf(rawBlocks)), <<>>)
       IN leading # <<>> =>
            /\ chapters' # <<>>
            /\ chapters'[1].id = Str("chapter-1")
            /\ chapters'[1].number = 1
            /\ chapters'[1].title = Str("Prologue")
            /\ WithoutIds(chapters'[1].blocks) = leading]_vars

\* a line, an image and a line stood before the heading Chapter 7: Go: they
\* are the three blocks of the chapter Prologue, and the heading's chapter
\* comes after it
C33_PrologueBeforeChapterSeven ==
  /\ pc = "done"
  /\ rawBlocks = <<TextRaw(0, <<Str("It ran")>>), ImageRaw(1),
                   TextRaw(1, <<Str("far."), Str("Chapter 7: Go")>>)>>
  /\ Len(chapters) = 1
  /\ chapters[1].title = Str("Prologue")
  /\ chapters[1].id = Str("chapter-1")
  /\ Len(chapters[1].blocks) = 3
  /\ chapters[1].blocks[1].html = Str("<p>It ran</p>")
  /\ chapters[1].blocks[2].type = "image"
  /\ chapters[1].blocks[3].html = Str("<p>far.</p>")


\* --- C34 ---

Titled(t) == \E k \in 1..Len(t) : t[k] \notin WhiteSpace

\* C34: a chapter is pushed with the title in force, which is never empty:
\* "Prologue" from the start and the heading's title after each push, set
\* before a block can accumulate, so that the fallback title is not used; the
\* table of contents has then one entry for each chapter, toc[i] with the id
\* of chapters[i].
C34_TitleInForceNeverEmpty ==
  [][/\ (pc' # "done") => Titled(currentTitle')
     /\ (chapters' # chapters) =>
          /\ Titled(currentTitle)
          /\ Len(chapters') = Len(chapters) + 1
          /\ Last(chapters').title = currentTitle
     /\ (pc' = "done") =>
          /\ Len(result'.toc) = Len(result'.chapters)
          /\ \A n \in 1..Len(result'.chapters) :
               /\ result'.toc[n].id = result'.chapters[n].id
               /\ result'.toc[n].label = result'.chapters[n].title]_vars

\* three chapters, the first of them Prologue and the others titled by a
\* chapter heading and by a section heading, and the three entries of the
\* table of contents
C34_ThreeTitledChapters ==
  /\ pc = "done"
  /\ Len(result.chapters) = 3
  /\ Len(result.toc) = 3
  /\ result.chapters[1].title = Str("Prologue")
  /\ result.chapters[2].title # result.chapters[3].title
  /\ result.chapters[2].title # Str("Prologue")
  /\ result.toc[3].id = Str("chapter-3")


\* --- C35 ---

WordsOf(t) == IF Trim(t) = <<>> THEN <<>> ELSE SplitWords(Trim(t))

\* a line the loop uses: neither blank nor, in storage.ts, a page footer
Used(l) == Branch(variant, language, l) # "skip"

\* the words of the used lines among ls[from..to]
RECURSIVE WordsOfLines(_, _, _)
WordsOfLines(ls, from, to) ==
  IF from > to THEN <<>>
  ELSE (IF Used(ls[from]) THEN WordsOf(ls[from]) ELSE <<>>)
         \o WordsOfLines(ls, from + 1, to)

\* the title the heading line gives by itself
OwnTitle ==
  IF Branch(variant, language, line) = "section"
  THEN detectSection(language, line).title
  ELSE IF variant = "storage" \/ detectChapter(language, line).title = <<>>
  THEN line
  ELSE detectChapter(language, line).title

\* C35: every line that is neither blank nor a footer is used once. A step
\* of the loop over the lines goes forward and not past the end; a body line
\* is appended to pendingText and nothing else is; on a heading line the
\* lines the lookahead passed over are, word for word and once, the rest of
\* the title followed by the text handed back to pendingText; a skipped line
\* changes nothing. When the conversion ends pendingText is empty and no
\* block is left outside the chapters.
C35_EveryLineUsedOnce ==
  [][/\ (pc = "lines" /\ i <= Len(lines) /\ pc' = "lines") =>
          /\ i' > i /\ i' <= Len(lines) + 1
          /\ lines' = lines
          /\ Branch(variant, language, line) = "skip" =>
               (i' = i + 1 /\ asm' = asm)
          /\ Branch(variant, language, line) = "body" =>
               /\ i' = i + 1
               /\ pendingText' = AppendPending(pendingText, line)
               /\ currentTitle' = currentTitle /\ chapters' = chapters
          /\ Branch(variant, language, line) \in {"chapter", "section"} =>
               WordsOf(currentTitle') \o WordsOf(pendingText')
                 = WordsOf(OwnTitle) \o WordsOfLines(lines, i + 1, i' - 1)
     /\ (pc' = "done") =>
          /\ pendingText' = <<>>
          /\ currentBlocks' = <<>>]_vars

\* the heading Chapter 7: took two lines after it: the title has the first
\* of them and the text handed back has the second
C35_TwoLinesAfterThePrefix ==
  /\ pc = "lines"
  /\ variant = "storage"
  /\ i = 4
  /\ Len(WordsOf(lines[1])) = 2
  /\ Branch(variant, language, lines[1]) = "chapter"
  /\ lines[2] # <<>> /\ lines[3] # <<>>
  /\ pendingText # <<>>
  /\ chapters = <<>>


\* ------------------------------------------------------------------------
\* Properties of the reader store (specifications SpecReader, SpecLegacy)
\* ------------------------------------------------------------------------

ListedIds(ms) == {ms[n].id : n \in 1..Len(ms)}

OneEntryForEachId(ms) == \A a, b \in 1..Len(ms) : ms[a].id = ms[b].id => a = b

\* C36: whatever setCurrentNovel, saveBookmarkForCurrent and clearCurrent
\* are called, recents has no two entries with one id; a call of
\* setCurrentNovel puts its meta first and the other calls leave recents as
\* it is, so that the first entry is the meta of the novel set last; an id
\* listed stays listed; and when currentNovel is not null, currentNovelId is
\* not null and is listed in recents.
C36_RecentsOfTheStore ==
  [][/\ OneEntryForEachId(recents')
     /\ ListedIds(recents) \subseteq ListedIds(recents')
     /\ (storeCall'.op = "setCurrentNovel") =>
          (recents' # <<>> /\ recents'[1] = storeCall'.meta)
     /\ (storeCall'.op \in {"saveBookmarkForCurrent", "clearCurrent"}) =>
          recents' = recents
     /\ (currentNovel' # NullObject) =>
          (currentNovelId' # Null /\ currentNovelId' \in ListedIds(recents'))]_vars

\* a novel set again after another one: its new meta is first, the other
\* novel is still listed, and the current novel has been cleared
C36_SetAgainThenCleared ==
  /\ Len(recents) = 2
  /\ recents[1].createdAt = 2
  /\ recents[2].createdAt = 1
  /\ recents[1].id # recents[2].id
  /\ currentNovel = NullObject /\ currentNovelId = Null
  /\ storeCall.op = "clearCurrent"
  /\ DOMAIN bookmarksByNovelId = ListedIds(recents)


\* --- C37 ---

\* the bookmark stored for the novel id, or none
StoredFor(byId, id) ==
  IF Falsy(id) \/ id \notin DOMAIN byId THEN NullObject ELSE byId[id]

\* the persisted store: a save with a current novel writes the entry of the
\* current novel and no other, a save without one changes nothing, setting
\* and clearing the current novel leave the bookmarks as they are, and the
\* bookmark reported is the one stored for the current novel
BookmarksPerNovelPersisted ==
  /\ (storeCall'.op = "saveBookmarkForCurrent") =>
       /\ currentNovelId' = currentNovelId
       /\ IF Falsy(currentNovelId') THEN bookmarksByNovelId' = bookmarksByNovelId
          ELSE /\ bookmarksByNovelId'[currentNovelId'] = storeCall'.bookmark
               /\ DOMAIN bookmarksByNovelId' \ {currentNovelId'}
                    = DOMAIN bookmarksByNovelId \ {currentNovelId'}
               /\ \A id \in DOMAIN bookmarksByNovelId \ {currentNovelId'} :
                    bookmarksByNovelId'[id] = bookmarksByNovelId[id]
  /\ (storeCall'.op \in {"setCurrentNovel", "clearCurrent"}) =>
       bookmarksByNovelId' = bookmarksByNovelId
  /\ getBookmarkForCurrent(readerState')
       = StoredFor(bookmarksByNovelId', currentNovelId')

\* the bookmarks localStorage holds, by novel id
StoredBookmarks(items) ==
  [id \in {id \in NovelIds : bookmarkKey(id) \in DOMAIN items} |->
     parse(items[bookmarkKey(id)])]

\* the store with one bookmark field: a step that changes the novel id leaves
\* the stored bookmarks as they are, a step that changes them changes the
\* entry of the current novel only, and the bookmark reported is the one
\* stored for the current novel
BookmarksPerNovelLegacy ==
  /\ (novelId' # novelId) => localStorage' = localStorage
  /\ (localStorage' # localStorage) =>
       /\ ~Falsy(novelId)
       /\ \A id \in NovelIds \ {novelId} :
            StoredFor(StoredBookmarks(localStorage'), id)
              = StoredFor(StoredBookmarks(localStorage), id)
  /\ bookmark' = StoredFor(StoredBookmarks(localStorage'), novelId')

\* C37: bookmarks are kept by novel. The bookmark reported for the current
\* novel is the last one saved while that novel id was current, or none,
\* and never one saved for another novel; a save without a current novel
\* changes nothing and a save with one changes its entry only; setting and
\* clearing the current novel leave the stored bookmarks as they are.
C37_BookmarksPerNovel ==
  [][BookmarksPerNovelPersisted /\ BookmarksPerNovelLegacy]_vars

\* the same of the persisted store alone
BookmarksKeptByPersistedStore == [][BookmarksPerNovelPersisted]_vars

\* the store with one bookmark field reports, for a novel that has no
\* bookmark stored, the bookmark saved for another novel
StaleBookmarkReported ==
  /\ ~Falsy(novelId)
  /\ bookmarkKey(novelId) \notin DOMAIN localStorage
  /\ bookmark # NullObject

\* in the persisted store, two novels with a bookmark each and the second
\* novel current
TwoBookmarksPersisted ==
  /\ Len(recents) = 2
  /\ currentNovelId = recents[1].id
  /\ DOMAIN bookmarksByNovelId = ListedIds(recents)
  /\ bookmarksByNovelId[recents[1].id] # bookmarksByNovelId[recents[2].id]


\* ------------------------------------------------------------------------
\* Properties of the upload page (specification SpecUpload)
\* ------------------------------------------------------------------------

AllSettled(reqs) == \A r \in 1..Len(reqs) : ~Running(reqs[r])

\* the request started last started while an earlier conversion was awaiting
\* its answer or had timeouts of its logs pending
LatestStartedDuringConversion(reqs) == reqs # <<>> /\ reqs[Len(reqs)].concurrent

\* the current novel, once every answer has come and every timeout has
\* fired, is the one of the request started last, when that request gave one
LatestNovelIsCurrent ==
  (LatestStartedDuringConversion(requests') /\ AllSettled(requests')
     /\ Last(requests').stage = "done") =>
    /\ currentNovelId' = Last(requests').novelId
    /\ currentNovel' = Last(requests').novelData

\* the loading flag is not cleared while the request started last is running
LoadingKeptForLatest ==
  (LatestStartedDuringConversion(requests') /\ loading /\ ~loading') =>
    ~Running(Last(requests'))

\* C38: when a conversion or a selection of a listed novel starts while an
\* earlier conversion is awaiting its answer or replaying its logs, the
\* current novel after all answers and timeouts is the one of the request
\* started last, and the loading flag is not cleared while that request is
\* running.
C38_LatestRequestDecides ==
  [][LatestNovelIsCurrent /\ LoadingKeptForLatest]_vars

\* each half by itself
LatestNovelIsCurrentAlways == [][LatestNovelIsCurrent]_vars
LoadingKeptForLatestAlways == [][LoadingKeptForLatest]_vars

\* two conversions, the second started before the first was answered and
\* answered first: everything has settled and the novel of the first is
\* current
EarlierAnswerCameLast ==
  /\ Len(requests) = 2
  /\ requests[1].kind = "convert" /\ requests[2].kind = "convert"
  /\ requests[2].concurrent
  /\ requests[1].stage = "done" /\ requests[2].stage = "done"
  /\ requests[1].novelId # requests[2].novelId
  /\ currentNovelId = requests[1].novelId

\* the second conversion still awaits its answer and the timeout of the
\* first has cleared the loading flag
LoadingClearedDuringLatest ==
  /\ Len(requests) = 2
  /\ requests[2].concurrent
  /\ requests[2].kind = "convert" /\ requests[2].stage = "fetch"
  /\ requests[1].stage = "done"
  /\ ~loading

\* requests that do not overlap: the second starts when the first has
\* settled, and its novel is the current one at the end
OneAfterTheOther ==
  /\ Len(requests) = 2
  /\ ~requests[2].concurrent
  /\ requests[1].stage = "done" /\ requests[2].stage = "done"
  /\ requests[1].novelId # requests[2].novelId
  /\ currentNovelId = requests[2].novelId

=============================================================================
